---- MODULE Spec2Model ----
(***************************************************************************)
(* Plugin lifecycle orchestration of ASCEND: PluginManager                 *)
(* (ascend/plugin_manager/manager.py), the version specifier helpers       *)
(* (ascend/plugin_manager/version_utils.py) and the Ascend facade          *)
(* (ascend/ascend.py).                                                     *)
(*                                                                         *)
(* A Python string is a sequence of tokens; a plugin name is such a        *)
(* string.  A dict is a function whose DOMAIN is the set of its keys.  An  *)
(* exception is a record [type, message]; str(e) is computed by Str.       *)
(* Every method of the manager is an operator from the manager's two maps  *)
(* (and the outcomes of the plugin bodies it calls) to the maps after the  *)
(* call and the exception that escapes, so that a method calling another   *)
(* method is the composition found in the source.                          *)
(***************************************************************************)
EXTENDS Integers, Sequences, FiniteSets, TLC

VARIABLES
  discovered,     \* PluginDiscovery._discovered_plugins: name -> PluginInfo
  dependency_graph, \* PluginDiscovery._dependency_graph: name -> set of names
  plugins,        \* PluginManager.plugins: name -> instance
  plugin_status,  \* PluginManager.plugin_status: name -> PluginStatus
  config,         \* Ascend.config
  config_files,   \* the configuration files: absolute path -> text
  config_cache,   \* ConfigLoader._config_cache: absolute path -> document
  heap,           \* the nested dicts and lists documents refer to
  validator,      \* ConfigValidator.errors and ConfigValidator.warnings
  last,           \* the last call: operation, arguments, what it raised
  progress        \* per name: successful load/initialize/start since the
                  \* status entry was created (history of the lifecycle)

vars == <<discovered, dependency_graph, plugins, plugin_status, config,
          config_files, config_cache, heap, validator, last, progress>>

-----------------------------------------------------------------------------
(* Bounds *)

\* longest spec list handed to a batch load
MaxSpecs == 2

\* most candidate files a discovery run scans
MaxFiles == 2

\* longest list of names handed to resolve_dependencies
MaxRequest == 2

\* nested calls of ConfigLoader.load before the interpreter gives up
MaxDepth == 3

\* calls of the loader, changes of files and changes of a returned document
\* in one run
MaxCalls == 3

\* calls of ConfigParser.merge in one run
MaxMerges == 2

\* longest string leaf, in tokens, that the environment is substituted in
MaxTokens == 3

-----------------------------------------------------------------------------
(* Values *)

\* An Optional[T] is None or Some(v): the empty or the one-element tuple, so
\* that None differs from the empty string and the empty dict
None == <<>>
Some(v) == <<v>>

DISCOVERED == "DISCOVERED"
LOADED == "LOADED"
INITIALIZED == "INITIALIZED"
RUNNING == "RUNNING"
STOPPED == "STOPPED"
ERROR == "ERROR"

PluginState == {DISCOVERED, LOADED, INITIALIZED, RUNNING, STOPPED, ERROR}

PA == <<"a">>
PB == <<"b">>
PC == <<"c">>
PX == <<"x">>

\* the names a caller passes; PX is never discovered
Names == {PA, PB, PC, PX}

EmptyDict == <<>>

\* PluginStatus(state, error=None, config=None, dependencies=None)
PluginStatus(state, dependencies) ==
  [state |-> state, error |-> None, config |-> None,
   dependencies |-> dependencies]

\* PluginInfo: the fields the manager reads
PluginInfo(version, dependencies) ==
  [version |-> version, dependencies |-> dependencies]

\* the version attribute each plugin class gives its instances
PluginVersion == (PA :> <<"1.0.0">>) @@ (PB :> <<"1.5.0">>) @@ (PC :> <<"2.0.0">>)

\* descriptor tables a discovery run can hand to the manager: two plugins
\* without dependencies (what PluginDiscovery builds), and a depending on b
NoDependencies ==
  [n \in {PA, PB} |-> PluginInfo(<<"1.0.0">>, <<>>)]

ADependsOnB ==
  (PA :> PluginInfo(<<"1.0.0">>, <<PB>>)) @@
  (PB :> PluginInfo(<<"1.0.0">>, <<>>))

DescriptorTables == {NoDependencies, ADependsOnB}

\* configurations handed to initialize_plugin: None (the default) and a
\* non-empty dict; the facade passes {} as well
CfgSome == (<<"threshold">> :> 1)
Configs == {None, Some(CfgSome)}

\* Python truthiness of a dict or str, and of an Optional[dict] / Optional[str]
NonEmpty(v) == DOMAIN v /= {}
Truthy(o) == o /= None /\ NonEmpty(o[1])

Range(s) == {s[i] : i \in DOMAIN s}

-----------------------------------------------------------------------------
(* Exceptions *)

PluginError(message) == [type |-> "PluginError", message |-> message]

\* an exception thrown by a plugin body (constructor, configure, start, stop)
BodyError(where) == [type |-> "RuntimeError", message |-> <<"boom in ">> \o where]

KeyError(key) == [type |-> "KeyError", message |-> key]

\* AscendError.__str__: "[code] message" when a code is set
Str(e) ==
  IF e.type = "PluginError" THEN <<"[PLUGIN_ERROR] ">> \o e.message
  ELSE IF e.type = "ConfigError" THEN <<"[CONFIG_ERROR] ">> \o e.message
  ELSE IF e.type = "ValidationError" THEN <<"[VALIDATION_ERROR] ">> \o e.message
  ELSE e.message

-----------------------------------------------------------------------------
(* version_utils.py *)

\* str.strip(): drop the leading and trailing blanks
RECURSIVE strip(_)
strip(s) ==
  IF s = <<>> THEN s
  ELSE IF Head(s) = " " THEN strip(Tail(s))
  ELSE IF s[Len(s)] = " " THEN strip(SubSeq(s, 1, Len(s) - 1))
  ELSE s

\* index of the first ":" of s (0 when there is none)
find_colon(s) ==
  IF ":" \in Range(s)
  THEN CHOOSE i \in DOMAIN s : s[i] = ":" /\ \A j \in 1..(i - 1) : s[j] /= ":"
  ELSE 0

\* parse_version_constraint(plugin_spec) -> (name, constraint | None)
parse_version_constraint(plugin_spec) ==
  IF ":" \in Range(plugin_spec)
  THEN LET i == find_colon(plugin_spec)
       IN <<strip(SubSeq(plugin_spec, 1, i - 1)),
            Some(strip(SubSeq(plugin_spec, i + 1, Len(plugin_spec))))>>
  ELSE <<strip(plugin_spec), None>>

\* packaging.version.parse on the version strings of the model
VersionKey(v) ==
  CASE v = <<"0.9.0">> -> <<0, 9, 0>>
    [] v = <<"1.0.0">> -> <<1, 0, 0>>
    [] v = <<"1.2.3">> -> <<1, 2, 3>>
    [] v = <<"1.5.0">> -> <<1, 5, 0>>
    [] v = <<"2.0.0">> -> <<2, 0, 0>>
    [] OTHER -> None

\* order of release tuples
VersionLess(k1, k2) ==
  \/ k1[1] < k2[1]
  \/ k1[1] = k2[1] /\ k1[2] < k2[2]
  \/ k1[1] = k2[1] /\ k1[2] = k2[2] /\ k1[3] < k2[3]

Operators == {">=", "==", ">", "<=", "<"}

\* check_version_compatibility that compares the two texts only
check_version_compatibility_exact(actual_version, constraint) ==
  actual_version = constraint

\* check_version_compatibility(actual_version, constraint): a single clause
\* "<op><version>"; anything else falls through to exact string equality
check_version_compatibility(actual_version, constraint) ==
  IF /\ Len(constraint) >= 2
     /\ constraint[1] \in Operators
     /\ VersionKey(strip(Tail(constraint))) /= None
     /\ VersionKey(actual_version) /= None
  THEN LET a == VersionKey(actual_version)
           c == VersionKey(strip(Tail(constraint)))
           op == constraint[1]
       IN CASE op = ">=" -> ~VersionLess(a, c)
            [] op = "==" -> a = c
            [] op = ">" -> VersionLess(c, a)
            [] op = "<=" -> ~VersionLess(c, a)
            [] op = "<" -> VersionLess(a, c)
  ELSE IF Len(constraint) >= 1 /\ constraint[1] \in Operators
       THEN FALSE
       ELSE actual_version = constraint

\* validate_plugin_version that lets every version through
validate_plugin_version_lenient(actual_version, constraint) == TRUE

\* validate_plugin_version({'version': v}, constraint)
validate_plugin_version(actual_version, constraint) ==
  IF ~Truthy(constraint) THEN TRUE
  ELSE IF ~NonEmpty(actual_version) THEN FALSE
  ELSE check_version_compatibility(actual_version, constraint[1])

-----------------------------------------------------------------------------
(* PluginManager: every method maps the maps before the call to            *)
(* [plugins, plugin_status, raised, events]: the maps after the call, the  *)
(* exception that escapes (None when the call returns) and the steps of    *)
(* the body that were reached, in order, each <<step, name>>.              *)

Result(P, S, raised, events) ==
  [plugins |-> P, plugin_status |-> S, raised |-> raised, events |-> events]

\* plugin_class(): the instance a constructor returns
Instance(name) == [class |-> name, version |-> PluginVersion[name]]

\* dict without a key
Without(f, k) == [n \in DOMAIN f \ {k} |-> f[n]]

\* list(dict.keys()) / dict.items(): the keys in a fixed order (the calls
\* made per key below touch that key's entries only)
NameOrder == <<PA, PB, PC, PX>>

RECURSIVE KeysFrom(_, _)
KeysFrom(order, names) ==
  IF order = <<>> THEN <<>>
  ELSE IF Head(order) \in names
       THEN <<Head(order)>> \o KeysFrom(Tail(order), names)
       ELSE KeysFrom(Tail(order), names)

InOrder(names) == KeysFrom(NameOrder, names)

\* discover_plugins, lines 66-72: a status entry for every discovered name
\* that has none
discover_plugins(d, P, S) ==
  Result(P,
         [n \in DOMAIN S \cup DOMAIN d |->
            IF n \in DOMAIN S THEN S[n]
            ELSE PluginStatus(DISCOVERED,
                              [dep \in Range(d[n].dependencies) |-> FALSE])],
         None,
         [i \in 1..Cardinality(DOMAIN d \ DOMAIN S) |->
            <<"status_created", InOrder(DOMAIN d \ DOMAIN S)[i]>>])

\* load_plugin, lines 142-146: the except clause
load_failed(P, S, plugin_name, plugin_spec, e, events) ==
  Result(P,
         IF plugin_name \in DOMAIN S
         THEN [S EXCEPT ![plugin_name].state = ERROR,
                        ![plugin_name].error = Some(Str(e))]
         ELSE S,
         Some(PluginError(<<"plugin load failed ">> \o plugin_spec
                 \o <<": ">> \o Str(e))),
         events)

\* load_succeeded that forgets to mark the dependencies satisfied
load_succeeded_flags_kept(d, P, S, plugin_name, events) ==
  IF plugin_name \in DOMAIN S
  THEN Result((plugin_name :> Instance(plugin_name)) @@ P,
              [S EXCEPT ![plugin_name].state = LOADED],
              None,
              events \o <<(<<"loaded", plugin_name>>)>>)
  ELSE Result((plugin_name :> Instance(plugin_name)) @@ P,
              (plugin_name :> PluginStatus(LOADED,
                 [dep \in Range(d[plugin_name].dependencies) |-> FALSE])) @@ S,
              None,
              events \o <<(<<"status_created", plugin_name>>),
                          (<<"loaded", plugin_name>>)>>)

\* load_plugin, lines 123-140: store the instance, update or create the status
load_succeeded(d, P, S, plugin_name, events) ==
  IF plugin_name \in DOMAIN S
  THEN Result((plugin_name :> Instance(plugin_name)) @@ P,
              [S EXCEPT ![plugin_name].state = LOADED,
                        ![plugin_name].dependencies =
                           [dep \in DOMAIN @ \cup Range(d[plugin_name].dependencies) |->
                              IF dep \in Range(d[plugin_name].dependencies)
                              THEN TRUE ELSE @[dep]]],
              None,
              events \o <<(<<"loaded", plugin_name>>)>>)
  ELSE Result((plugin_name :> Instance(plugin_name)) @@ P,
              (plugin_name :> PluginStatus(LOADED,
                 [dep \in Range(d[plugin_name].dependencies) |-> TRUE])) @@ S,
              None,
              events \o <<(<<"status_created", plugin_name>>),
                          (<<"loaded", plugin_name>>)>>)

RECURSIVE load_plugin(_, _, _, _, _)
RECURSIVE load_dependencies(_, _, _, _, _, _)

\* load_plugin, line 107: r is what the load of the first dependency gave;
\* its exception ends the loop
dependency_loaded(d, r, deps, throws, events) ==
  IF r.raised /= None
  THEN Result(r.plugins, r.plugin_status, r.raised, events \o r.events)
  ELSE load_dependencies(d, r.plugins, r.plugin_status, Tail(deps), throws,
                         events \o r.events)

\* load_plugin, lines 105-107: load the dependencies that have no instance,
\* in the order of the descriptor, stopping at the first failure
load_dependencies(d, P, S, deps, throws, events) ==
  IF deps = <<>> THEN Result(P, S, None, events)
  ELSE IF Head(deps) \in DOMAIN P
       THEN load_dependencies(d, P, S, Tail(deps), throws, events)
       ELSE dependency_loaded(d, load_plugin(d, P, S, Head(deps), throws),
                              deps, throws, events)

\* load_plugin, lines 109-140: deps is what loading the dependencies gave;
\* construct the plugin, check its version, store it
construct_plugin(d, deps, plugin_name, plugin_spec, version_constraint, throws) ==
  IF deps.raised /= None
  THEN load_failed(deps.plugins, deps.plugin_status, plugin_name,
                   plugin_spec, deps.raised[1], deps.events)
  ELSE IF plugin_name \in throws
  THEN load_failed(deps.plugins, deps.plugin_status, plugin_name,
                   plugin_spec, BodyError(<<"constructor">>),
                   deps.events \o <<(<<"construct", plugin_name>>)>>)
  ELSE IF /\ Truthy(version_constraint)
          /\ ~validate_plugin_version(Instance(plugin_name).version,
                                      version_constraint)
  THEN load_failed(deps.plugins, deps.plugin_status, plugin_name,
                   plugin_spec,
                   PluginError(<<"plugin ">> \o plugin_name
                      \o <<" version ">> \o Instance(plugin_name).version
                      \o <<" does not satisfy: ">> \o version_constraint[1]),
                   deps.events \o <<(<<"construct", plugin_name>>)>>)
  ELSE load_succeeded(d, deps.plugins, deps.plugin_status, plugin_name,
                      deps.events \o <<(<<"construct", plugin_name>>)>>)

\* load_plugin, lines 95-140: the body after the spec is parsed
load_parsed(d, P, S, plugin_spec, plugin_name, version_constraint, throws) ==
  IF plugin_name \in DOMAIN P THEN Result(P, S, None, <<>>)
  ELSE IF plugin_name \notin DOMAIN d
  THEN load_failed(P, S, plugin_name, plugin_spec,
                   PluginError(<<"plugin not found: ">> \o plugin_name), <<>>)
  ELSE construct_plugin(d,
         load_dependencies(d, P, S, d[plugin_name].dependencies, throws, <<>>),
         plugin_name, plugin_spec, version_constraint, throws)

\* load_plugin(plugin_spec); throws is the set of names whose constructor
\* raises during this call
load_plugin(d, P, S, plugin_spec, throws) ==
  load_parsed(d, P, S, plugin_spec,
              parse_version_constraint(plugin_spec)[1],
              parse_version_constraint(plugin_spec)[2], throws)

\* initialize_plugin that asks for a status entry instead of an instance
initialize_plugin_no_instance(P, S, plugin_name, cfg, throws) ==
  IF plugin_name \notin DOMAIN S
  THEN Result(P, S, Some(PluginError(<<"plugin not loaded: ">> \o plugin_name)),
              <<>>)
  ELSE IF Truthy(cfg) /\ throws
  THEN Result(P,
              [S EXCEPT ![plugin_name].state = ERROR,
                        ![plugin_name].error = Some(Str(BodyError(<<"configure">>)))],
              Some(PluginError(<<"plugin initialization failed ">> \o plugin_name
                      \o <<": ">> \o Str(BodyError(<<"configure">>)))),
              <<(<<"configure", plugin_name>>)>>)
  ELSE Result(P,
              [S EXCEPT ![plugin_name].state = INITIALIZED,
                        ![plugin_name].config = cfg],
              None,
              (IF Truthy(cfg) THEN <<(<<"configure", plugin_name>>)>> ELSE <<>>)
                 \o <<(<<"initialized", plugin_name>>)>>)

\* initialize_plugin(plugin_name, config); throws: configure raises
initialize_plugin(P, S, plugin_name, cfg, throws) ==
  IF plugin_name \notin DOMAIN P
  THEN Result(P, S, Some(PluginError(<<"plugin not loaded: ">> \o plugin_name)),
              <<>>)
  ELSE IF plugin_name \notin DOMAIN S
  THEN Result(P, S, Some(KeyError(plugin_name)), <<>>)
  ELSE IF Truthy(cfg) /\ throws
  THEN Result(P,
              [S EXCEPT ![plugin_name].state = ERROR,
                        ![plugin_name].error = Some(Str(BodyError(<<"configure">>)))],
              Some(PluginError(<<"plugin initialization failed ">> \o plugin_name
                      \o <<": ">> \o Str(BodyError(<<"configure">>)))),
              <<(<<"configure", plugin_name>>)>>)
  ELSE Result(P,
              [S EXCEPT ![plugin_name].state = INITIALIZED,
                        ![plugin_name].config = cfg],
              None,
              (IF Truthy(cfg) THEN <<(<<"configure", plugin_name>>)>> ELSE <<>>)
                 \o <<(<<"initialized", plugin_name>>)>>)

\* start_plugin without the check of the state: any known plugin is started
start_plugin_unchecked(P, S, plugin_name, throws) ==
  IF plugin_name \notin DOMAIN S
  THEN Result(P, S, Some(PluginError(<<"plugin not initialized: ">> \o plugin_name)),
              <<>>)
  ELSE IF plugin_name \notin DOMAIN P \/ throws
  THEN Result(P,
              [S EXCEPT ![plugin_name].state = ERROR,
                        ![plugin_name].error = Some(Str(BodyError(<<"start">>)))],
              Some(PluginError(<<"plugin start failed ">> \o plugin_name
                      \o <<": ">> \o Str(BodyError(<<"start">>)))),
              <<>>)
  ELSE Result(P, [S EXCEPT ![plugin_name].state = RUNNING], None,
              <<(<<"start", plugin_name>>), (<<"started", plugin_name>>)>>)

\* start_plugin(plugin_name); throws: the plugin's start raises
start_plugin(P, S, plugin_name, throws) ==
  IF plugin_name \notin DOMAIN S \/ S[plugin_name].state /= INITIALIZED
  THEN Result(P, S, Some(PluginError(<<"plugin not initialized: ">> \o plugin_name)),
              <<>>)
  ELSE IF plugin_name \notin DOMAIN P \/ throws
  THEN LET e == IF plugin_name \notin DOMAIN P THEN KeyError(plugin_name)
                ELSE BodyError(<<"start">>)
       IN Result(P,
                 [S EXCEPT ![plugin_name].state = ERROR,
                           ![plugin_name].error = Some(Str(e))],
                 Some(PluginError(<<"plugin start failed ">> \o plugin_name
                         \o <<": ">> \o Str(e))),
                 IF plugin_name \in DOMAIN P
                 THEN <<(<<"start", plugin_name>>)>> ELSE <<>>)
  ELSE Result(P, [S EXCEPT ![plugin_name].state = RUNNING], None,
              <<(<<"start", plugin_name>>), (<<"started", plugin_name>>)>>)

\* stop_plugin(plugin_name); throws: the plugin's stop raises
stop_plugin(P, S, plugin_name, throws) ==
  IF plugin_name \notin DOMAIN S \/ S[plugin_name].state /= RUNNING
  THEN Result(P, S, Some(PluginError(<<"plugin not running: ">> \o plugin_name)),
              <<>>)
  ELSE IF plugin_name \notin DOMAIN P \/ throws
  THEN LET e == IF plugin_name \notin DOMAIN P THEN KeyError(plugin_name)
                ELSE BodyError(<<"stop">>)
       IN Result(P,
                 [S EXCEPT ![plugin_name].state = ERROR,
                           ![plugin_name].error = Some(Str(e))],
                 Some(PluginError(<<"plugin stop failed ">> \o plugin_name
                         \o <<": ">> \o Str(e))),
                 IF plugin_name \in DOMAIN P
                 THEN <<(<<"stop", plugin_name>>)>> ELSE <<>>)
  ELSE Result(P, [S EXCEPT ![plugin_name].state = STOPPED], None,
              <<(<<"stop", plugin_name>>), (<<"stopped", plugin_name>>)>>)

\* unload_plugin that deletes the instance and keeps the status entry
unload_stopped_status_kept(stopped, plugin_name) ==
  IF stopped.raised /= None
  THEN Result(stopped.plugins, stopped.plugin_status, stopped.raised,
              <<(<<"unload", plugin_name>>)>> \o stopped.events)
  ELSE Result(Without(stopped.plugins, plugin_name),
              stopped.plugin_status,
              None,
              <<(<<"unload", plugin_name>>)>> \o stopped.events
                 \o <<(<<"removed", plugin_name>>)>>)

\* unload_plugin, lines 225-234: stopped is what stop_plugin gave (nothing
\* when the plugin was not Running); its exception leaves unload_plugin
unload_stopped(stopped, plugin_name) ==
  IF stopped.raised /= None
  THEN Result(stopped.plugins, stopped.plugin_status, stopped.raised,
              <<(<<"unload", plugin_name>>)>> \o stopped.events)
  ELSE Result(Without(stopped.plugins, plugin_name),
              Without(stopped.plugin_status, plugin_name),
              None,
              <<(<<"unload", plugin_name>>)>> \o stopped.events
                 \o <<(<<"removed", plugin_name>>)>>)

\* unload_plugin(plugin_name); throws: the plugin's stop raises
unload_plugin(P, S, plugin_name, throws) ==
  IF plugin_name \notin DOMAIN P
  THEN Result(P, S, None, <<(<<"unload", plugin_name>>)>>)
  ELSE unload_stopped(
         IF plugin_name \in DOMAIN S /\ S[plugin_name].state = RUNNING
         THEN stop_plugin(P, S, plugin_name, throws)
         ELSE Result(P, S, None, <<>>),
         plugin_name)

\* what a batch call reports besides the maps: the specs (or names) that
\* failed, the ones that came through, and one record per spec attempted
BatchResult(P, S, raised, events, failed, loaded, attempts) ==
  [plugins |-> P, plugin_status |-> S, raised |-> raised, events |-> events,
   failed |-> failed, loaded |-> loaded, attempts |-> attempts]

Attempt(spec, raised, events) ==
  [spec |-> spec, raised |-> raised, events |-> events]

\* ', '.join(strings)
RECURSIVE join(_)
join(strings) ==
  IF strings = <<>> THEN <<>>
  ELSE IF Len(strings) = 1 THEN strings[1]
  ELSE strings[1] \o <<", ">> \o join(Tail(strings))

\* the result r of a call made after the steps in events
After(events, r) ==
  Result(r.plugins, r.plugin_status, r.raised, events \o r.events)

\* load_plugins, lines 295-297: loaded is what load_plugin gave; initialize
\* the plugin when configs has an entry for it
configure_loaded(loaded, plugin_name, configs, throws) ==
  IF loaded.raised /= None THEN loaded
  ELSE IF Truthy(configs) /\ plugin_name \in DOMAIN configs[1]
  THEN After(loaded.events,
             initialize_plugin(loaded.plugins, loaded.plugin_status, plugin_name,
                               Some(configs[1][plugin_name]), throws))
  ELSE loaded

\* load_plugins, lines 290-305: the body of the loop for one spec
load_one(d, P, S, plugin_spec, configs, env) ==
  configure_loaded(load_plugin(d, P, S, plugin_spec, env.constructor),
                   parse_version_constraint(plugin_spec)[1], configs,
                   env.configure)

\* load_plugins, lines 299-305: one is what the body gave for plugin_spec;
\* a failure goes to the failed list and the loop goes on
attempted(acc, plugin_spec, one) ==
  BatchResult(one.plugins, one.plugin_status, None,
              acc.events \o one.events,
              IF one.raised /= None
              THEN Append(acc.failed, plugin_spec) ELSE acc.failed,
              IF one.raised = None
              THEN Append(acc.loaded, parse_version_constraint(plugin_spec)[1])
              ELSE acc.loaded,
              Append(acc.attempts, Attempt(plugin_spec, one.raised, one.events)))

\* load_plugins, line 290: the loop over the specs, from the i-th on
RECURSIVE load_plugins_loop(_, _, _, _, _, _, _)
load_plugins_loop(d, acc, plugin_specs, configs, envs, i, n) ==
  IF i > n THEN acc
  ELSE \* the body runs once per spec
       CHOOSE out \in
         {load_plugins_loop(d, step, plugin_specs, configs, envs, i + 1, n) :
            step \in {attempted(acc, plugin_specs[i], one) :
                        one \in {load_one(d, acc.plugins, acc.plugin_status,
                                          plugin_specs[i], configs, envs[i])}}} :
         TRUE

\* load_plugins, lines 307-310: raise when a spec failed
load_plugins_end(done) ==
  IF done.failed /= <<>>
  THEN [done EXCEPT !.raised =
          Some(PluginError(<<"plugin load failed: ">> \o join(done.failed)))]
  ELSE done

\* load_plugins(plugin_specs, configs); envs[i] gives, for the i-th spec, the
\* names whose constructor raises and whether configure raises
load_plugins(d, P, S, plugin_specs, configs, envs) ==
  load_plugins_end(
    load_plugins_loop(d, BatchResult(P, S, None, <<>>, <<>>, <<>>, <<>>),
                      plugin_specs, configs, envs, 1, Len(plugin_specs)))

\* clear_all_plugins without the try: the first unload that raises ends the
\* sweep
RECURSIVE clear_all_loop_abort(_, _, _)
clear_all_loop_abort(acc, names, throws) ==
  IF names = <<>> THEN acc
  ELSE LET one == unload_plugin(acc.plugins, acc.plugin_status, Head(names),
                                Head(names) \in throws)
       IN IF one.raised /= None
          THEN BatchResult(one.plugins, one.plugin_status, one.raised,
                           acc.events \o one.events,
                           Append(acc.failed, Head(names)), acc.loaded,
                           Append(acc.attempts,
                                  Attempt(Head(names), one.raised, one.events)))
          ELSE clear_all_loop_abort(
                 BatchResult(one.plugins, one.plugin_status, None,
                             acc.events \o one.events, acc.failed, acc.loaded,
                             Append(acc.attempts,
                                    Attempt(Head(names), one.raised, one.events))),
                 Tail(names), throws)

RECURSIVE clear_all_loop(_, _, _)

\* clear_all_plugins, lines 316-319: one is what unload_plugin gave for the
\* first name; a PluginError is passed over
unloaded(acc, names, throws, one) ==
  IF one.raised /= None /\ one.raised[1].type /= "PluginError"
  THEN BatchResult(one.plugins, one.plugin_status, one.raised,
                   acc.events \o one.events, acc.failed, acc.loaded,
                   Append(acc.attempts,
                          Attempt(Head(names), one.raised, one.events)))
  ELSE clear_all_loop(
         BatchResult(one.plugins, one.plugin_status, None,
                     acc.events \o one.events,
                     IF one.raised /= None
                     THEN Append(acc.failed, Head(names)) ELSE acc.failed,
                     acc.loaded,
                     Append(acc.attempts,
                            Attempt(Head(names), one.raised, one.events))),
         Tail(names), throws)

\* clear_all_plugins, lines 314-319: unload each name of the snapshot
clear_all_loop(acc, names, throws) ==
  IF names = <<>> THEN acc
  ELSE CHOOSE out \in
         {unloaded(acc, names, throws, one) :
            one \in {unload_plugin(acc.plugins, acc.plugin_status, Head(names),
                                   Head(names) \in throws)}} :
         TRUE

\* clear_all_plugins(); throws: the names whose stop raises
clear_all_plugins(P, S, throws) ==
  clear_all_loop(BatchResult(P, S, None, <<>>, <<>>, <<>>, <<>>),
                 InOrder(DOMAIN P), throws)

-----------------------------------------------------------------------------
(* Ascend (ascend.py) *)

\* dict.get(key, default)
Get(dict, key, default) == IF key \in DOMAIN dict THEN dict[key] ELSE default

\* scan_and_load_plugins, lines 84-93: loaded is what load_plugin gave;
\* initialize with the plugin's section of the configuration, or with {}
initialize_loaded(loaded, plugin_name, plugin_config, throws) ==
  IF loaded.raised /= None THEN loaded
  ELSE After(loaded.events,
             initialize_plugin(loaded.plugins, loaded.plugin_status, plugin_name,
                               IF NonEmpty(plugin_config) THEN Some(plugin_config)
                               ELSE Some(EmptyDict),
                               throws))

\* scan_and_load_plugins, lines 79-93: the body of the loop for one spec
scan_one(d, P, S, cfg, plugin_spec, env) ==
  initialize_loaded(load_plugin(d, P, S, plugin_spec, env.constructor),
                    parse_version_constraint(plugin_spec)[1],
                    Get(cfg, parse_version_constraint(plugin_spec)[1], EmptyDict),
                    env.configure)

RECURSIVE scan_loop(_, _, _, _, _, _, _)

\* scan_and_load_plugins, lines 94-99: one is what the body gave for the
\* i-th spec; an exception is wrapped and raised out of the loop
scanned(d, acc, cfg, plugin_names, envs, i, n, one) ==
  IF one.raised /= None
  THEN BatchResult(one.plugins, one.plugin_status,
                   Some(PluginError(<<"plugin load failed ">> \o plugin_names[i]
                           \o <<": ">> \o Str(one.raised[1]))),
                   acc.events \o one.events,
                   Append(acc.failed, plugin_names[i]), acc.loaded,
                   Append(acc.attempts,
                          Attempt(plugin_names[i], one.raised, one.events)))
  ELSE scan_loop(d,
         BatchResult(one.plugins, one.plugin_status, None,
                     acc.events \o one.events, acc.failed,
                     Append(acc.loaded, parse_version_constraint(plugin_names[i])[1]),
                     Append(acc.attempts,
                            Attempt(plugin_names[i], None, one.events))),
         cfg, plugin_names, envs, i + 1, n)

\* scan_and_load_plugins, line 78: the loop over the specs, from the i-th on
scan_loop(d, acc, cfg, plugin_names, envs, i, n) ==
  IF i > n THEN acc
  ELSE CHOOSE out \in
         {scanned(d, acc, cfg, plugin_names, envs, i, n, one) :
            one \in {scan_one(d, acc.plugins, acc.plugin_status, cfg,
                              plugin_names[i], envs[i])}} :
         TRUE

\* Ascend.scan_and_load_plugins(plugin_names)
scan_and_load_plugins(d, P, S, cfg, plugin_names, envs) ==
  scan_loop(d, BatchResult(P, S, None, <<>>, <<>>, <<>>, <<>>), cfg,
            IF plugin_names = None THEN Get(cfg, <<"plugins">>, <<>>)
            ELSE plugin_names[1],
            envs, 1,
            Len(IF plugin_names = None THEN Get(cfg, <<"plugins">>, <<>>)
                ELSE plugin_names[1]))

\* Ascend._initialize_plugins()
initialize_plugins(d, P, S, cfg, envs) ==
  IF cfg = EmptyDict THEN BatchResult(P, S, None, <<>>, <<>>, <<>>, <<>>)
  ELSE IF Get(cfg, <<"auto_discover">>, TRUE) /\ Get(cfg, <<"plugins">>, <<>>) /= <<>>
  THEN scan_and_load_plugins(d, P, S, cfg, None, envs)
  ELSE BatchResult(P, S, None, <<>>, <<>>, <<>>, <<>>)

-----------------------------------------------------------------------------
(* PluginDiscovery (discovery.py) *)

\* a plugin class: the name, the version and the required plugins that the
\* implementation declares
PluginClass(name, version, requires) ==
  [name |-> name, version |-> version, requires |-> requires]

\* what importing a candidate file gives: an exception that leaves
\* _load_plugin_info, a module that cannot be executed, a module without a
\* plugin type, or a module with a plugin class
Unreadable == [kind |-> "unreadable"]
Malformed == [kind |-> "malformed"]
NoPluginType == [kind |-> "no_type"]
WithClass(class) == [kind |-> "class", class |-> class]

\* what discovery returns: the two maps, the exception that escapes, the
\* value returned
Found(D, G, raised, returned) ==
  [discovered |-> D, dependency_graph |-> G, raised |-> raised,
   returned |-> returned]

\* _build_dependency_graph: name -> set(info.dependencies)
build_dependency_graph(D) == [name \in DOMAIN D |-> Range(D[name].dependencies)]

\* the descriptor built for a class, lines 89-97 and 174-182: the version
\* and the dependencies are the defaults
Descriptor(class) == PluginInfo(<<"1.0.0">>, <<>>)

\* _register_builtin_plugins: a descriptor per entry of the registry
register_builtin_plugins(D, builtin_plugins) ==
  [name \in DOMAIN D \cup DOMAIN builtin_plugins |->
     IF name \in DOMAIN builtin_plugins THEN Descriptor(builtin_plugins[name])
     ELSE D[name]]

\* _load_plugin_info(file_path): the exception that escapes, or the
\* descriptor (with its name), or None
load_plugin_info(file) ==
  IF file.kind = "unreadable"
  THEN [raised |-> Some(BodyError(<<"import">>)), info |-> None]
  ELSE IF file.kind \in {"malformed", "no_type"}
  THEN [raised |-> None, info |-> None]
  ELSE [raised |-> None,
        info |-> Some(<<file.class.name, Descriptor(file.class)>>)]

\* discover_plugins that lets the exception of a file end the scan
RECURSIVE scan_files_abort(_, _)
scan_files_abort(D, files) ==
  IF files = <<>> THEN [discovered |-> D, raised |-> None]
  ELSE IF load_plugin_info(Head(files)).raised /= None
  THEN [discovered |-> D, raised |-> load_plugin_info(Head(files)).raised]
  ELSE IF load_plugin_info(Head(files)).info /= None
  THEN scan_files_abort(
         (load_plugin_info(Head(files)).info[1][1]
            :> load_plugin_info(Head(files)).info[1][2]) @@ D,
         Tail(files))
  ELSE scan_files_abort(D, Tail(files))

\* discover_plugins, lines 113-131: the files in scan order; a file whose
\* load raises is logged and passed over
RECURSIVE scan_files(_, _)
scan_files(D, files) ==
  IF files = <<>> THEN [discovered |-> D, raised |-> None]
  ELSE IF load_plugin_info(Head(files)).raised /= None
  THEN scan_files(D, Tail(files))
  ELSE IF load_plugin_info(Head(files)).info /= None
  THEN scan_files(
         (load_plugin_info(Head(files)).info[1][1]
            :> load_plugin_info(Head(files)).info[1][2]) @@ D,
         Tail(files))
  ELSE scan_files(D, Tail(files))

\* discover_plugins, lines 133-136: scan is what the loop over the files gave
discovery_done(scan, D, G) ==
  IF scan.raised /= None THEN Found(D, G, scan.raised, None)
  ELSE Found(scan.discovered, build_dependency_graph(scan.discovered),
             None, Some(scan.discovered))

\* PluginDiscovery.discover_plugins(); builtin_plugins is the registry of
\* built-in classes, files the candidate files in scan order
PluginDiscovery_discover_plugins(D, G, builtin_plugins, files) ==
  discovery_done(scan_files(register_builtin_plugins(D, builtin_plugins), files),
                 register_builtin_plugins(D, builtin_plugins), G)

\* clear_cache()
clear_cache(D, G) == Found(EmptyDict, EmptyDict, None, None)

\* the orders in which a set can be iterated
RECURSIVE Orders(_)
Orders(S) ==
  IF S = {} THEN {<<>>}
  ELSE UNION {{<<x>> \o rest : rest \in Orders(S \ {x})} : x \in S}

\* resolve_dependencies, lines 282-296, that adds no dependency
RECURSIVE expand_requested_only(_, _, _)
expand_requested_only(G, all_plugins, to_process) ==
  IF to_process = {} THEN {[raised |-> None, all_plugins |-> all_plugins]}
  ELSE UNION {
         IF current_plugin \notin DOMAIN G
         THEN {[raised |-> Some(PluginError(<<"Unknown plugin: ">> \o current_plugin)),
                all_plugins |-> {}]}
         ELSE expand_requested_only(G, all_plugins, to_process \ {current_plugin}) :
         current_plugin \in to_process}

\* resolve_dependencies, lines 282-296, that passes over a name without an
\* entry in the graph
RECURSIVE expand_skip_unknown(_, _, _)
expand_skip_unknown(G, all_plugins, to_process) ==
  IF to_process = {} THEN {[raised |-> None, all_plugins |-> all_plugins]}
  ELSE UNION {
         IF current_plugin \notin DOMAIN G
         THEN expand_skip_unknown(G, all_plugins, to_process \ {current_plugin})
         ELSE expand_skip_unknown(G, all_plugins \cup G[current_plugin],
                     (to_process \ {current_plugin})
                        \cup (G[current_plugin] \ all_plugins)) :
         current_plugin \in to_process}

\* resolve_dependencies, lines 282-296: the outcomes of the loop that pops
\* a name of to_process, in any order, and adds its dependencies
RECURSIVE expand(_, _, _)
expand(G, all_plugins, to_process) ==
  IF to_process = {} THEN {[raised |-> None, all_plugins |-> all_plugins]}
  ELSE UNION {
         IF current_plugin \notin DOMAIN G
         THEN {[raised |-> Some(PluginError(<<"Unknown plugin: ">> \o current_plugin)),
                all_plugins |-> {}]}
         ELSE expand(G, all_plugins \cup G[current_plugin],
                     (to_process \ {current_plugin})
                        \cup (G[current_plugin] \ all_plugins)) :
         current_plugin \in to_process}

\* _topological_sort, lines 314-322: the in-degrees and the reversed graph
\* over the listed plugins
InDegree(G, listed) ==
  [plugin \in listed |->
     IF plugin \in DOMAIN G THEN Cardinality(G[plugin] \cap listed) ELSE 0]

Dependents(G, listed) ==
  [plugin \in listed |-> {q \in listed : q \in DOMAIN G /\ plugin \in G[q]}]

\* _topological_sort, lines 328-335: the results of the loop; the
\* dependents of the current plugin are visited in any order
RECURSIVE kahn(_, _, _, _)
kahn(graph, queue, result, in_degree) ==
  IF queue = <<>> THEN {result}
  ELSE UNION {
         kahn(graph, Tail(queue) \o ready, Append(result, Head(queue)),
              [n \in DOMAIN in_degree |->
                 IF n \in graph[Head(queue)] THEN in_degree[n] - 1
                 ELSE in_degree[n]]) :
         ready \in Orders({n \in graph[Head(queue)] : in_degree[n] = 1})}

\* _topological_sort that returns whatever the loop produced
sorted_unchecked(plugin_list, result) ==
  [raised |-> None, returned |-> Some(result)]

\* _topological_sort, lines 338-341: a result shorter than the list is a
\* circular dependency
sorted(plugin_list, result) ==
  IF Len(result) /= Len(plugin_list)
  THEN [raised |-> Some(PluginError(<<"Circular dependency detected among plugins">>)),
        returned |-> None]
  ELSE [raised |-> None, returned |-> Some(result)]

\* _topological_sort that returns the list as it came
topological_sort_as_listed(G, plugin_list) ==
  {[raised |-> None, returned |-> Some(plugin_list)]}

\* _topological_sort(plugins): the outcomes
topological_sort(G, plugin_list) ==
  {sorted(plugin_list, result) :
     result \in kahn(Dependents(G, Range(plugin_list)),
                     SelectSeq(plugin_list,
                               LAMBDA plugin : InDegree(G, Range(plugin_list))[plugin] = 0),
                     <<>>, InDegree(G, Range(plugin_list)))}

\* resolve_dependencies, line 299: expanded is one outcome of the loop;
\* list(all_plugins) comes in any order
resolved(G, expanded) ==
  IF expanded.raised /= None
  THEN {[raised |-> expanded.raised, returned |-> None]}
  ELSE UNION {topological_sort(G, plugin_list) : plugin_list \in Orders(expanded.all_plugins)}

\* resolve_dependencies, lines 282-299: the outcomes over the graph G
resolve_over(G, plugin_names) ==
  UNION {resolved(G, expanded) :
           expanded \in expand(G, Range(plugin_names), Range(plugin_names))}

\* resolve_dependencies, lines 278-279: found is the discovery run when the
\* descriptor table is empty, else the maps as they are
resolve_found(found, plugin_names) ==
  {Found(found.discovered, found.dependency_graph, out.raised, out.returned) :
     out \in resolve_over(found.dependency_graph, plugin_names)}

\* PluginDiscovery.resolve_dependencies(plugin_names): the outcomes
resolve_dependencies(D, G, plugin_names, builtin_plugins, files) ==
  resolve_found(IF D = EmptyDict
                THEN PluginDiscovery_discover_plugins(D, G, builtin_plugins, files)
                ELSE Found(D, G, None, None),
                plugin_names)

-----------------------------------------------------------------------------
(* ConfigParser (config/parser.py), ConfigValidator (config/validator.py)  *)
(* and ConfigLoader (config/loader.py)                                     *)
(*                                                                         *)
(* A document is a dict: a function from keys to values.  A value is a     *)
(* scalar or a reference to a nested dict or list; the nested objects live *)
(* in the heap, so that dict.copy(), which copies the keys of one dict and *)
(* shares what its values refer to, is the identity on the function and    *)
(* keeps the references.  A path is a string: a sequence of tokens, the    *)
(* first being the directory when the path is absolute.                    *)

Scalar(text) == <<"str", text, 0>>
Number(text) == <<"int", text, 0>>
Ref(id) == <<"ref", <<>>, id>>

Dict(items) == [type |-> "dict", items |-> items]
List(items) == [type |-> "list", items |-> items]

is_str(v) == v[1] = "str"
is_dict(h, v) == v[1] = "ref" /\ h[v[3]].type = "dict"
is_list(h, v) == v[1] = "ref" /\ h[v[3]].type = "list"

\* the identity of a new object: the first one not in use
new_id(h) == CHOOSE id \in 1..(Cardinality(DOMAIN h) + 1) : id \notin DOMAIN h

\* what a parser call gives: the heap, the exception that escapes, the
\* document
Parsed(h, raised, doc) == [heap |-> h, raised |-> raised, doc |-> doc]

\* what a loader call gives: the heap, the cache, the exception that
\* escapes, the document returned
\* validated: the lists of the validator when the call validated
Loaded(h, C, raised, returned) ==
  [heap |-> h, config_cache |-> C, raised |-> raised, returned |-> returned,
   validated |-> None]

ConfigError(message, config_path) ==
  [type |-> "ConfigError",
   message |-> IF config_path /= <<>>
               THEN message \o <<" (config: ">> \o config_path \o <<")">>
               ELSE message]

ValidationError(message, field) ==
  [type |-> "ValidationError",
   message |-> IF field /= <<>>
               THEN <<"Field '">> \o field \o <<"': ">> \o message
               ELSE message]

RecursionError == [type |-> "RecursionError",
                   message |-> <<"maximum recursion depth exceeded">>]

\* os.path.isabs, os.path.dirname, os.path.join (path_join), os.path.abspath
WorkDir == <<"/w/">>
isabs(path) == path /= <<>> /\ Head(path) = "/w/"
dirname(path) == IF isabs(path) THEN <<Head(path)>> ELSE <<>>
path_join(dir, path) == IF isabs(path) THEN path ELSE dir \o path
abspath(path) == path_join(WorkDir, path)

\* ConfigParser.env_var_pattern: the tokens that match ${NAME}, with the
\* name in group 1
NameOf == ("${X}" :> "X") @@ ("${Y}" :> "Y")

\* pattern.search(value): the place of the first match, 0 when none
RECURSIVE first_match(_, _)
first_match(value, i) ==
  IF i > Len(value) THEN 0
  ELSE IF value[i] \in DOMAIN NameOf THEN i
  ELSE first_match(value, i + 1)

\* the replacement template env_value expanded for one match: "\\1" in it
\* is group 1 of the match
RECURSIVE expand_template(_, _)
expand_template(env_value, name) ==
  IF env_value = <<>> THEN <<>>
  ELSE <<IF Head(env_value) = "\\1" THEN name ELSE Head(env_value)>>
         \o expand_template(Tail(env_value), name)

\* pattern.sub(env_value, value): every match replaced by the template
RECURSIVE pattern_sub(_, _)
pattern_sub(env_value, value) ==
  IF value = <<>> THEN <<>>
  ELSE (IF Head(value) \in DOMAIN NameOf
        THEN expand_template(env_value, NameOf[Head(value)])
        ELSE <<Head(value)>>)
         \o pattern_sub(env_value, Tail(value))

\* str.isdigit, and the string without its first "."
Digits == {"1", "5"}
isdigit(text) == text /= <<>> /\ \A i \in DOMAIN text : text[i] \in Digits
RECURSIVE without_first_dot(_)
without_first_dot(text) ==
  IF text = <<>> THEN <<>>
  ELSE IF Head(text) = "." THEN Tail(text)
  ELSE <<Head(text)>> \o without_first_dot(Tail(text))

\* _resolve_env_var_string, lines 118-132: the value of the type that the
\* resolved string reads as
retyped(resolved_value) ==
  IF isdigit(resolved_value) THEN <<"int", resolved_value, 0>>
  ELSE IF isdigit(without_first_dot(resolved_value))
  THEN <<"float", resolved_value, 0>>
  ELSE IF resolved_value \in {<<"true">>, <<"True">>} THEN <<"bool", <<"True">>, 0>>
  ELSE IF resolved_value \in {<<"false">>, <<"False">>} THEN <<"bool", <<"False">>, 0>>
  ELSE IF resolved_value = <<"null">> THEN <<"NoneType", <<>>, 0>>
  ELSE Scalar(resolved_value)

\* _resolve_env_var_string, lines 100-114: at is the place of the first
\* match, environ the process environment
resolve_first(environ, value, at) ==
  IF at = 0 THEN Scalar(value)
  ELSE IF NameOf[value[at]] \notin DOMAIN environ THEN Scalar(value)
  ELSE retyped(pattern_sub(environ[NameOf[value[at]]], value))

\* ConfigParser._resolve_env_var_string(value)
resolve_env_var_string(environ, value) ==
  resolve_first(environ, value, first_match(value, 1))

\* yaml.safe_load and _resolve_env_vars (no string of a file names an
\* environment variable): every nested dict and list of the text is a new
\* object
RECURSIVE parse(_, _, _, _)
parse(h, doc, nested, keys) ==
  IF keys = {} THEN Parsed(h, None, doc)
  ELSE parse((new_id(h) :> nested[CHOOSE k \in keys : TRUE]) @@ h,
             ((CHOOSE k \in keys : TRUE) :> Ref(new_id(h))) @@ doc,
             nested,
             keys \ {CHOOSE k \in keys : TRUE})

\* the value under key, at the top level or in cfg["ascend"]
has_field(h, cfg, key) ==
  \/ key \in DOMAIN cfg
  \/ /\ "ascend" \in DOMAIN cfg
     /\ is_dict(h, cfg["ascend"])
     /\ key \in DOMAIN h[cfg["ascend"][3]].items

\* ConfigParser._validate_basic_structure, lines 154-156: cfg.get('version'),
\* else cfg['ascend'].get('version')
version_of(h, cfg) ==
  IF "version" \in DOMAIN cfg THEN Some(cfg["version"])
  ELSE IF /\ "ascend" \in DOMAIN cfg
          /\ is_dict(h, cfg["ascend"])
          /\ "version" \in DOMAIN h[cfg["ascend"][3]].items
  THEN Some(h[cfg["ascend"][3]].items["version"])
  ELSE None

\* ConfigParser._validate_basic_structure(cfg): the exception raised
validate_basic_structure(h, cfg) ==
  IF ~has_field(h, cfg, "version")
  THEN Some(ValidationError(<<"Missing required field: version">>, <<"version">>))
  ELSE IF ~has_field(h, cfg, "framework")
  THEN Some(ValidationError(<<"Missing required field: framework">>, <<"framework">>))
  ELSE IF \/ version_of(h, cfg) = None
          \/ ~is_str(version_of(h, cfg)[1])
          \/ version_of(h, cfg)[1][2] = <<>>
  THEN Some(ValidationError(<<"Version must be a non-empty string">>, <<"version">>))
  ELSE None

\* ConfigParser.load, lines 60-71: parsed is the document read
parser_checked(parsed, path) ==
  IF validate_basic_structure(parsed.heap, parsed.doc) /= None
  THEN Parsed(parsed.heap,
              Some(ConfigError(<<"Failed to load config: ">>
                      \o Str(validate_basic_structure(parsed.heap, parsed.doc)[1]),
                   path)),
              None)
  ELSE parsed

\* ConfigParser.load(config_path); F: the text of each file
parser_load(h, F, path) ==
  IF path \notin DOMAIN F
  THEN Parsed(h, Some(ConfigError(<<"Config file not found">>, path)), None)
  ELSE parser_checked(parse(h, F[path].scalars, F[path].nested,
                            DOMAIN F[path].nested), path)

\* ConfigParser.merge(base_config, override_config): result is the copy of
\* the base being filled, keys the keys of the override still to come
RECURSIVE merge_from(_, _, _, _)
RECURSIVE merge_key(_, _, _, _, _)
RECURSIVE merge(_, _, _)

\* lines 176-178: nested is the merge of the two dicts under key
merge_nested(nested, result, override_config, keys, key) ==
  merge_from((new_id(nested.heap) :> Dict(nested.doc)) @@ nested.heap,
             (key :> Ref(new_id(nested.heap))) @@ result,
             override_config, keys \ {key})

\* a merge that joins two lists under one key instead of replacing the
\* base's list
merge_key_concat(h, result, override_config, keys, key) ==
  IF /\ key \in DOMAIN result
     /\ is_dict(h, result[key])
     /\ is_dict(h, override_config[key])
  THEN merge_nested(merge(h, h[result[key][3]].items,
                          h[override_config[key][3]].items),
                    result, override_config, keys, key)
  ELSE IF /\ key \in DOMAIN result
          /\ is_list(h, result[key])
          /\ is_list(h, override_config[key])
  THEN merge_from((new_id(h) :> List(h[result[key][3]].items
                                        \o h[override_config[key][3]].items)) @@ h,
                  (key :> Ref(new_id(h))) @@ result,
                  override_config, keys \ {key})
  ELSE merge_from(h, (key :> override_config[key]) @@ result,
                  override_config, keys \ {key})

\* a merge that never descends into two dicts under one key
merge_key_shallow(h, result, override_config, keys, key) ==
  merge_from(h, (key :> override_config[key]) @@ result,
             override_config, keys \ {key})

merge_key(h, result, override_config, keys, key) ==
  IF /\ key \in DOMAIN result
     /\ is_dict(h, result[key])
     /\ is_dict(h, override_config[key])
  THEN merge_nested(merge(h, h[result[key][3]].items,
                          h[override_config[key][3]].items),
                    result, override_config, keys, key)
  ELSE merge_from(h, (key :> override_config[key]) @@ result,
                  override_config, keys \ {key})

merge_from(h, result, override_config, keys) ==
  IF keys = {} THEN Parsed(h, None, result)
  ELSE merge_key(h, result, override_config, keys, CHOOSE k \in keys : TRUE)

merge(h, base_config, override_config) ==
  merge_from(h, base_config, override_config, DOMAIN override_config)

\* ConfigValidator._get_nested_value(data, path): path split at the dots
RECURSIVE get_nested_value(_, _, _)
get_nested_value(h, data, path) ==
  IF Head(path) \notin DOMAIN data THEN None
  ELSE IF Len(path) = 1 THEN Some(data[Head(path)])
  ELSE IF is_dict(h, data[Head(path)])
  THEN get_nested_value(h, h[data[Head(path)][3]].items, Tail(path))
  ELSE None

\* the directories that exist: the current one and the working directory
ExistingDirs == {<<>>, WorkDir}

\* ConfigValidator._validate_paths, lines 409-419, for one field: value is
\* what _get_nested_value gave, Path(value).parent the path without its
\* last part
path_warnings(value, field_path) ==
  IF /\ value /= None
     /\ is_str(value[1])
     /\ value[1][2] /= <<>>
     /\ SubSeq(value[1][2], 1, Len(value[1][2]) - 1) \notin ExistingDirs
  THEN <<(<<"Path ">> \o <<field_path[1], ".", field_path[2]>>
             \o <<": parent directory does not exist: ">>
             \o SubSeq(value[1][2], 1, Len(value[1][2]) - 1))>>
  ELSE <<>>

\* ConfigValidator._validate_paths(cfg): the warnings recorded
validator_warnings(h, cfg) ==
  path_warnings(get_nested_value(h, cfg, <<"training", "log_dir">>),
                <<"training", "log_dir">>)
    \o path_warnings(get_nested_value(h, cfg, <<"training", "checkpoint_dir">>),
                     <<"training", "checkpoint_dir">>)

\* ConfigValidator._validate_plugin_dependencies(cfg): the errors recorded
validator_errors(h, cfg) ==
  IF /\ "plugins" \in DOMAIN cfg
     /\ is_list(h, cfg["plugins"])
     /\ \E i \in DOMAIN h[cfg["plugins"][3]].items :
           ~is_str(h[cfg["plugins"][3]].items[i])
  THEN <<(<<"Plugins must be a list of strings">>)>>
  ELSE <<>>

Count(n) == <<ToString(n)>>

\* a document that is not a mapping but a list: its item under "-", which
\* is no key of a mapping
NotADict == "-" :> Scalar(<<"item">>)

\* the lists of a validator
Lists(errors, warnings) == [errors |-> errors, warnings |-> warnings]

\* what validate did: the exception raised or the boolean returned, and
\* the lists it left in the validator
Verdict(raised, returned, errors, warnings) ==
  [raised |-> raised, returned |-> returned, lists |-> Lists(errors, warnings)]

\* a validate for which a warning is an error as well
validate_recorded_warnings_fail(errors, warnings, strict) ==
  Verdict(None, Some(errors \o warnings = <<>>), errors \o warnings, warnings)

\* ConfigValidator.validate, lines 285-292, for the errors and warnings that
\* the checks of a mapping recorded
validate_recorded(errors, warnings, strict) ==
  Verdict(None, Some(errors = <<>>), errors, warnings)

\* ConfigValidator.validate(cfg, strict): _validate_basic_structure raises
\* for a document that is not a mapping, which strict raises again and
\* which is recorded otherwise
validator_validate(h, cfg, strict) ==
  IF cfg = NotADict
  THEN IF strict
       THEN Verdict(Some(ValidationError(
                           Str(ValidationError(<<"Config must be a dictionary">>, <<>>)),
                           <<>>)),
                    None, <<>>, <<>>)
       ELSE Verdict(None, Some(FALSE),
                    <<Str(ValidationError(<<"Config must be a dictionary">>, <<>>))>>,
                    <<>>)
  ELSE validate_recorded(validator_errors(h, cfg), validator_warnings(h, cfg),
                         strict)

\* a field rule: the keys of the dot-path, required, the type expected
\* ("" when the rule has none) and whether the rule has 'min': 0 (the rules
\* at hand have no other bound, length or pattern)
FieldRule(path, required, type, min_zero) ==
  [path |-> path, required |-> required, type |-> type, min_zero |-> min_zero]

\* the dot-path of a rule
RECURSIVE Dotted(_)
Dotted(path) ==
  IF Len(path) = 1 THEN path ELSE <<Head(path), ".">> \o Dotted(Tail(path))

\* type(value).__name__ and isinstance(value, type_map[expected_type])
type_name(h, value) ==
  IF value[1] = "ref" THEN h[value[3]].type ELSE value[1]
is_instance(h, value, expected_type) ==
  \/ expected_type = "string" /\ type_name(h, value) = "str"
  \/ expected_type \in {"integer", "number"} /\ type_name(h, value) = "int"
  \/ expected_type = "dict" /\ type_name(h, value) = "dict"
  \/ expected_type \in {"list", "array"} /\ type_name(h, value) = "list"

\* ConfigValidator._validate_type(value, rules, field_path)
validate_type(h, value, rule) ==
  IF rule.type /= "" /\ ~is_instance(h, value, rule.type)
  THEN <<(<<"Field ">> \o Dotted(rule.path) \o <<": expected ", rule.type,
           ", got ", type_name(h, value)>>)>>
  ELSE <<>>

\* ConfigValidator._validate_value_range(value, rules, field_path): a
\* number is a sign and digits
validate_value_range(value, rule) ==
  IF value[1] = "int" /\ rule.min_zero /\ Head(value[2]) = "-"
  THEN <<(<<"Field ">> \o Dotted(rule.path) \o <<": value ">> \o value[2]
           \o <<" is less than minimum 0">>)>>
  ELSE <<>>

\* ConfigValidator._validate_fields, lines 309-325, for one rule: value is
\* what _get_nested_value gave
validate_field(h, value, rule) ==
  IF value = None
  THEN IF rule.required
       THEN <<(<<"Missing required field: ">> \o Dotted(rule.path))>>
       ELSE <<>>
  ELSE validate_type(h, value[1], rule) \o validate_value_range(value[1], rule)

\* ConfigValidator._validate_fields(cfg, rules): the errors recorded
RECURSIVE validate_fields(_, _, _)
validate_fields(h, cfg, rules) ==
  IF rules = <<>> THEN <<>>
  ELSE validate_field(h, get_nested_value(h, cfg, Head(rules).path), Head(rules))
         \o validate_fields(h, cfg, Tail(rules))

\* the lines of a list of messages, each after "\n- "
RECURSIVE Bulleted(_)
Bulleted(messages) ==
  IF messages = <<>> THEN <<>>
  ELSE <<"\n- ">> \o Head(messages) \o Bulleted(Tail(messages))

\* ConfigLoader.validate(cfg, config_path): the ValidationError raised
\* for the errors and warnings counted and listed
validation_failed(lists, config_path) ==
  ValidationError(<<"Config validation failed">> \o <<" for ">> \o config_path
                     \o <<"\nErrors: ">> \o Count(Len(lists.errors))
                     \o <<", Warnings: ">> \o Count(Len(lists.warnings))
                     \o (IF lists.errors /= <<>>
                         THEN <<"\n\nErrors:">> \o Bulleted(lists.errors)
                         ELSE <<>>)
                     \o (IF lists.warnings /= <<>>
                         THEN <<"\n\nWarnings:">> \o Bulleted(lists.warnings)
                         ELSE <<>>),
                  <<"configuration">>)

\* ConfigLoader.load, line 299: the exception e of the body, wrapped
config_load_failed(h, C, e, config_path) ==
  Loaded(h, C,
         Some(ConfigError(<<"Failed to load config: ">> \o Str(e), config_path)),
         None)

\* _process_inheritance that leaves the marker in the merged document
stripped_marker_kept(merged, C) ==
  Loaded(merged.heap, C, None, Some(merged.doc))

\* _process_inheritance, lines 326-330: merged is the base overridden
stripped(merged, C) ==
  Loaded(merged.heap, C, None, Some(Without(merged.doc, "_extends")))

\* the base laid over the document instead of the document over the base
inherit_base_wins(base, cfg) ==
  IF base.raised /= None THEN base
  ELSE stripped(merge(base.heap, cfg, base.returned[1]), base.config_cache)

\* _process_inheritance, lines 320-324: base is what load gave for the base
inherit(base, cfg) ==
  IF base.raised /= None THEN base
  ELSE stripped(merge(base.heap, base.returned[1], cfg), base.config_cache)

RECURSIVE ConfigLoader_load(_, _, _, _, _, _, _)

\* ConfigLoader._process_inheritance(cfg, config_path)
process_inheritance(h, C, F, cfg, config_path, depth) ==
  IF "_extends" \in DOMAIN cfg
  THEN inherit(ConfigLoader_load(h, C, F,
                  path_join(dirname(config_path), cfg["_extends"][2]),
                  FALSE, TRUE, depth - 1),
               cfg)
  ELSE Loaded(h, C, None, Some(cfg))

\* ConfigLoader.load, lines 287-296: inherited is the document with its
\* inheritance processed
load_cached(inherited, config_path, cache) ==
  Loaded(inherited.heap,
         IF cache
         THEN (config_path :> inherited.returned[1]) @@ inherited.config_cache
         ELSE inherited.config_cache,
         None, inherited.returned)

\* lines 290-291: verdict is what the validator gave for the document
load_validated(inherited, verdict, config_path, cache) ==
  [(IF verdict.returned = Some(TRUE)
    THEN load_cached(inherited, config_path, cache)
    ELSE config_load_failed(inherited.heap, inherited.config_cache,
                            validation_failed(verdict.lists, config_path),
                            config_path))
   EXCEPT !.validated = Some(verdict.lists)]

load_resolved(inherited, config_path, validate, cache) ==
  IF inherited.raised /= None
  THEN config_load_failed(inherited.heap, inherited.config_cache, inherited.raised[1],
                   config_path)
  ELSE IF validate
  THEN load_validated(inherited,
                      validator_validate(inherited.heap, inherited.returned[1], FALSE),
                      config_path, cache)
  ELSE load_cached(inherited, config_path, cache)

\* ConfigLoader.load, lines 282-285: parsed is what the parser gave
load_parsed_config(parsed, C, F, config_path, validate, cache, depth) ==
  IF parsed.raised /= None
  THEN config_load_failed(parsed.heap, C, parsed.raised[1], config_path)
  ELSE load_resolved(process_inheritance(parsed.heap, C, F, parsed.doc,
                                         config_path, depth),
                     config_path, validate, cache)

\* ConfigLoader.load, lines 275-279, on the absolute path; depth: the calls
\* the interpreter still allows, a RecursionError when there is none left
load_absolute(h, C, F, config_path, validate, cache, depth) ==
  IF cache /\ config_path \in DOMAIN C
  THEN Loaded(h, C, None, Some(C[config_path]))
  ELSE IF depth = 0
  THEN config_load_failed(h, C, RecursionError, config_path)
  ELSE load_parsed_config(parser_load(h, F, config_path), C, F, config_path,
                          validate, cache, depth)

\* ConfigLoader.load(config_path, validate, cache)
ConfigLoader_load(h, C, F, config_path, validate, cache, depth) ==
  load_absolute(h, C, F, abspath(config_path), validate, cache, depth)

\* ConfigLoader.reload(config_path, validate)
reload(h, C, F, config_path, validate) ==
  ConfigLoader_load(h,
                    IF config_path \in DOMAIN C THEN Without(C, config_path) ELSE C,
                    F, config_path, validate, TRUE, MaxDepth)

\* the elements of a set, listed in a fixed order
RECURSIVE Listed(_)
Listed(S) ==
  IF S = {} THEN <<>>
  ELSE <<CHOOSE x \in S : TRUE>> \o Listed(S \ {CHOOSE x \in S : TRUE})

\* the objects a document refers to (the nested dicts and lists of the
\* files hold scalars only)
RefKeys(doc) == Listed({k \in DOMAIN doc : doc[k][1] = "ref"})
DocRefs(doc) == [i \in DOMAIN RefKeys(doc) |-> doc[RefKeys(doc)[i]][3]]
Refs(doc) == Range(DocRefs(doc))

RECURSIVE CacheRefs(_, _)
CacheRefs(C, paths) ==
  IF paths = <<>> THEN <<>>
  ELSE DocRefs(C[Head(paths)]) \o CacheRefs(C, Tail(paths))

\* ids without the repetitions
RECURSIVE Once(_)
Once(ids) ==
  IF ids = <<>> THEN <<>>
  ELSE IF ids[Len(ids)] \in Range(SubSeq(ids, 1, Len(ids) - 1))
  THEN Once(SubSeq(ids, 1, Len(ids) - 1))
  ELSE Append(Once(SubSeq(ids, 1, Len(ids) - 1)), ids[Len(ids)])

\* the objects that the cache or the caller's document refers to
Live(C, held) ==
  Once(CacheRefs(C, Listed(DOMAIN C))
         \o (IF held = None THEN <<>> ELSE DocRefs(held[1])))

\* doc with every reference naming the place of its object in order
Moved(order, doc) ==
  [k \in DOMAIN doc |->
     IF doc[k][1] = "ref"
     THEN Ref(CHOOSE i \in DOMAIN order : order[i] = doc[k][3])
     ELSE doc[k]]

\* the heap without the objects that neither the cache nor the caller's
\* document refers to; what an object is called does not matter, so the
\* live ones are numbered in the order of Live
Collected(h, C, held, order) ==
  Loaded([i \in DOMAIN order |-> h[order[i]]],
         [path \in DOMAIN C |-> Moved(order, C[path])],
         None,
         IF held = None THEN None ELSE Some(Moved(order, held[1])))

-----------------------------------------------------------------------------
(* Inputs *)

\* the plugin specs a caller passes: plain names, an unknown name, and a
\* version constraint on b (whose instances report 1.5.0) that fails
B_ge_2 == <<"b", ":", ">=", "2.0.0">>

PluginSpecs == {PA, PB, PX, B_ge_2}

\* the specs of a batch
BatchSpecs == {PA, PB, B_ge_2}

\* the lists of distinct specs of length 0..n
RECURSIVE SpecLists(_)
SpecLists(n) ==
  IF n = 0 THEN {<<>>}
  ELSE SpecLists(n - 1) \cup
       {Append(p[1], p[2]) :
          p \in {q \in SpecLists(n - 1) \X BatchSpecs :
                   Len(q[1]) = n - 1 /\ q[2] \notin Range(q[1])}}

\* the spec lists a caller passes to a batch
BatchLists == SpecLists(MaxSpecs)

\* the names whose constructor a load of name can reach: name and its
\* transitive dependencies in the descriptor table
RECURSIVE Closure(_, _, _)
Closure(d, names, fuel) ==
  LET more == names \cup UNION {Range(d[n].dependencies) : n \in names \cap DOMAIN d}
  IN IF fuel = 0 \/ more = names THEN names ELSE Closure(d, more, fuel - 1)

Reach(d, plugin_spec) ==
  Closure(d, {parse_version_constraint(plugin_spec)[1]}, Cardinality(Names))
     \cap DOMAIN d

\* the outcomes of the plugin bodies one spec of a batch can meet
Envs(d, plugin_spec, configurable) ==
  [constructor : SUBSET Reach(d, plugin_spec),
   configure : IF configurable THEN BOOLEAN ELSE {FALSE}]

\* all the ways to pick one environment per spec of the list
RECURSIVE EnvLists(_, _, _)
EnvLists(d, plugin_specs, configured) ==
  IF plugin_specs = <<>> THEN {<<>>}
  ELSE {<<e>> \o rest :
          e \in Envs(d, Head(plugin_specs),
                     parse_version_constraint(Head(plugin_specs))[1] \in configured),
          rest \in EnvLists(d, Tail(plugin_specs), configured)}

\* configs arguments of load_plugins
BatchConfigs == {None, Some(PA :> CfgSome)}

\* Ascend configurations: none, and a plugin list with a section for a
NoConfig == EmptyDict
ListConfig(auto) ==
  (<<"plugins">> :> <<PA, PB>>) @@ (<<"auto_discover">> :> auto) @@ (PA :> CfgSome)

AscendConfigs == {NoConfig, ListConfig(TRUE), ListConfig(FALSE)}

\* the plugin classes candidate files define, and the registry of built-in
\* classes
ClassA == PluginClass(PA, <<"1.5.0">>, <<PB>>)
ClassC == PluginClass(PC, <<"1.0.0">>, <<>>)
ClassB == PluginClass(PB, <<"1.5.0">>, <<>>)

Candidates ==
  {Unreadable, Malformed, NoPluginType, WithClass(ClassA), WithClass(ClassC)}

FileLists == UNION {[1..n -> Candidates] : n \in 0..MaxFiles}

\* the files of the discovery run that resolve_dependencies starts when
\* the descriptor table is empty
NestedFileLists == UNION {[1..n -> Candidates] : n \in 0..(MaxFiles - 1)}

BuiltinRegistries == {EmptyDict, PB :> ClassB}

\* the lists of names a caller asks resolve_dependencies for
Requests == UNION {[1..n -> Names] : n \in 0..MaxRequest}

\* descriptor tables with declared dependencies: chains, a diamond, cycles,
\* a plugin depending on itself, a dependency that is not discovered
DependencyTables ==
  {(PA :> PluginInfo(<<"1.0.0">>, da)) @@ (PB :> PluginInfo(<<"1.0.0">>, db))
      @@ (PC :> PluginInfo(<<"1.0.0">>, dc)) :
     da \in {<<>>, <<PB>>, <<PB, PC>>, <<PA>>},
     db \in {<<>>, <<PC>>, <<PA>>, <<PX>>},
     dc \in {<<>>, <<PA>>}}

-----------------------------------------------------------------------------
(* History *)

\* how far a name got along load, initialize, start since its status entry
\* was created
step_progress(g, ev) ==
  LET n == ev[2]
  IN CASE ev[1] \in {"status_created", "removed"} -> [g EXCEPT ![n] = 0]
       [] ev[1] = "loaded" /\ g[n] = 0 -> [g EXCEPT ![n] = 1]
       [] ev[1] = "initialized" /\ g[n] = 1 -> [g EXCEPT ![n] = 2]
       [] ev[1] = "started" /\ g[n] = 2 -> [g EXCEPT ![n] = 3]
       [] OTHER -> g

RECURSIVE run_progress(_, _)
run_progress(g, events) ==
  IF events = <<>> THEN g
  ELSE run_progress(step_progress(g, Head(events)), Tail(events))

Call(op, arg, r) ==
  [op |-> op, arg |-> arg, raised |-> r.raised, events |-> r.events,
   failed |-> <<>>, loaded |-> <<>>, attempts |-> <<>>]

\* the names a caller passes: the discovered ones and the unknown x
Callable == DOMAIN discovered \cup {PX}

BatchCall(op, arg, r) ==
  [op |-> op, arg |-> arg, raised |-> r.raised, events |-> r.events,
   failed |-> r.failed, loaded |-> r.loaded, attempts |-> r.attempts]

DiscoveryCall(op, arg, r) ==
  [op |-> op, arg |-> arg, raised |-> r.raised, events |-> <<>>,
   failed |-> <<>>, loaded |-> <<>>, attempts |-> <<>>, returned |-> r.returned]

\* the effect of a call of the discovery on the state
Finds(r, call) ==
  /\ discovered' = r.discovered
  /\ dependency_graph' = r.dependency_graph
  /\ last' = call
  /\ UNCHANGED <<plugins, plugin_status, config, progress>>
  /\ UNCHANGED <<config_files, config_cache, heap, validator>>

\* the effect of a call on the state
Becomes(r, call) ==
  /\ plugins' = r.plugins
  /\ plugin_status' = r.plugin_status
  /\ last' = call
  /\ progress' = run_progress(progress, r.events)
  /\ UNCHANGED <<discovered, dependency_graph, config>>
  /\ UNCHANGED <<config_files, config_cache, heap, validator>>

-----------------------------------------------------------------------------
(* Specification *)

\* PluginManager(config): the maps are empty, then discover_plugins()
NoPlugins == Result(EmptyDict, EmptyDict, None, <<>>)

Constructed(d) == discover_plugins(d, NoPlugins.plugins, NoPlugins.plugin_status)

\* no ConfigLoader at work
NoLoader ==
  /\ config_files = EmptyDict
  /\ config_cache = EmptyDict
  /\ heap = EmptyDict
  /\ validator = Lists(<<>>, <<>>)

Init ==
  /\ discovered \in DescriptorTables
  /\ config = NoConfig
  /\ NoLoader
  /\ plugins = Constructed(discovered).plugins
  /\ plugin_status = Constructed(discovered).plugin_status
  /\ last = Call("__init__", None, Constructed(discovered))
  /\ progress = run_progress([n \in Names |-> 0], Constructed(discovered).events)
  /\ dependency_graph = build_dependency_graph(discovered)

\* Ascend(config=cfg): PluginManager(config), then _initialize_plugins loads
\* the configured list; the constructor returns only if nothing raised
InitAscend ==
  /\ discovered \in DescriptorTables
  /\ NoLoader
  /\ dependency_graph = build_dependency_graph(discovered)
  /\ config \in AscendConfigs
  /\ \E envs \in EnvLists(discovered, Get(config, <<"plugins">>, <<>>),
                         {n \in DOMAIN config \cap Names : NonEmpty(config[n])}) :
       \E r \in {initialize_plugins(discovered, Constructed(discovered).plugins,
                                    Constructed(discovered).plugin_status,
                                    config, envs)} :
          /\ r.raised = None
          /\ plugins = r.plugins
          /\ plugin_status = r.plugin_status
          /\ last = BatchCall("__init__", None, r)
          /\ progress = run_progress([n \in Names |-> 0],
                                     Constructed(discovered).events \o r.events)

DiscoverPlugins ==
  \E r \in {discover_plugins(discovered, plugins, plugin_status)} :
    Becomes(r, Call("discover_plugins", None, r))

LoadPlugin ==
  \E plugin_spec \in PluginSpecs :
    \E throws \in SUBSET Reach(discovered, plugin_spec) :
      \E r \in {load_plugin(discovered, plugins, plugin_status, plugin_spec,
                           throws)} :
        Becomes(r, Call("load_plugin", plugin_spec, r))

InitializePlugin ==
  \E plugin_name \in Callable, cfg \in Configs, throws \in BOOLEAN :
    \E r \in {initialize_plugin(plugins, plugin_status, plugin_name, cfg, throws)} :
       /\ (throws => Truthy(cfg))
       /\ Becomes(r, Call("initialize_plugin", <<plugin_name, cfg>>, r))

StartPlugin ==
  \E plugin_name \in Callable, throws \in BOOLEAN :
    \E r \in {start_plugin(plugins, plugin_status, plugin_name, throws)} :
       Becomes(r, Call("start_plugin", plugin_name, r))

StopPlugin ==
  \E plugin_name \in Callable, throws \in BOOLEAN :
    \E r \in {stop_plugin(plugins, plugin_status, plugin_name, throws)} :
       Becomes(r, Call("stop_plugin", plugin_name, r))

UnloadPlugin ==
  \E plugin_name \in Callable, throws \in BOOLEAN :
    \E r \in {unload_plugin(plugins, plugin_status, plugin_name, throws)} :
       Becomes(r, Call("unload_plugin", plugin_name, r))

LoadPlugins ==
  \E plugin_specs \in BatchLists, configs \in BatchConfigs :
    \E envs \in EnvLists(discovered, plugin_specs,
                         IF Truthy(configs) THEN DOMAIN configs[1] ELSE {}) :
      \E r \in {load_plugins(discovered, plugins, plugin_status, plugin_specs,
                            configs, envs)} :
         Becomes(r, BatchCall("load_plugins", <<plugin_specs, configs>>, r))

ClearAllPlugins ==
  \E throws \in SUBSET DOMAIN plugins :
    \E r \in {clear_all_plugins(plugins, plugin_status, throws)} :
       Becomes(r, BatchCall("clear_all_plugins", None, r))

\* with PluginManager(...) as m: ... ; __exit__ clears all plugins
Exit ==
  \E throws \in SUBSET DOMAIN plugins :
    \E r \in {clear_all_plugins(plugins, plugin_status, throws)} :
       Becomes(r, BatchCall("__exit__", None, r))

ScanAndLoadPlugins ==
  \E plugin_names \in {None} \cup {Some(l) : l \in BatchLists} :
    LET specs == IF plugin_names = None THEN Get(config, <<"plugins">>, <<>>)
                 ELSE plugin_names[1]
    IN \E envs \in EnvLists(discovered, specs,
                            {n \in DOMAIN config \cap Names : NonEmpty(config[n])}) :
         \E r \in {scan_and_load_plugins(discovered, plugins, plugin_status,
                                        config, plugin_names, envs)} :
            Becomes(r, BatchCall("scan_and_load_plugins", plugin_names, r))

\* the operations of the manager that take one plugin or none
Next ==
  \/ DiscoverPlugins
  \/ LoadPlugin
  \/ InitializePlugin
  \/ StartPlugin
  \/ StopPlugin
  \/ UnloadPlugin
  \/ ClearAllPlugins
  \/ Exit

Spec == Init /\ [][Next]_vars

\* the batch operations, among the calls that bring plugins to Running and
\* take them away again
NextBatch ==
  \/ LoadPlugins
  \/ StartPlugin
  \/ UnloadPlugin

\* the descriptors PluginDiscovery builds declare no dependencies
InitBatch == Init /\ discovered = NoDependencies

SpecBatch == InitBatch /\ [][NextBatch]_vars

\* Ascend.destroy_plugin(plugin_name)
DestroyPlugin ==
  \E plugin_name \in Callable, throws \in BOOLEAN :
    \E r \in {unload_plugin(plugins, plugin_status, plugin_name, throws)} :
       Becomes(r, Call("destroy_plugin", plugin_name, r))

\* Ascend.discover_available_plugins(refresh)
DiscoverAvailablePlugins ==
  \E r \in {discover_plugins(discovered, plugins, plugin_status)} :
    Becomes(r, Call("discover_available_plugins", None, r))

\* the facade
NextAscend ==
  \/ ScanAndLoadPlugins
  \/ DestroyPlugin
  \/ DiscoverAvailablePlugins

SpecAscend == InitAscend /\ [][NextAscend]_vars

\* PluginDiscovery(config) on its own, with descriptors registered and the
\* dependency graph built from them
InitDiscovery ==
  /\ discovered \in DependencyTables
  /\ NoLoader
  /\ dependency_graph = build_dependency_graph(discovered)
  /\ plugins = EmptyDict
  /\ plugin_status = EmptyDict
  /\ config = NoConfig
  /\ last = DiscoveryCall("PluginDiscovery", None,
                          Found(discovered, dependency_graph, None, None))
  /\ progress = [n \in Names |-> 0]

DiscoveryDiscoverPlugins ==
  \E builtin_plugins \in BuiltinRegistries, files \in FileLists :
    \E r \in {PluginDiscovery_discover_plugins(discovered, dependency_graph,
                                                builtin_plugins, files)} :
       Finds(r, DiscoveryCall("PluginDiscovery.discover_plugins",
                              <<builtin_plugins, files>>, r))

ClearCache ==
  \E D \in {discovered}, G \in {dependency_graph} :
    \E r \in {clear_cache(D, G)} :
       Finds(r, DiscoveryCall("clear_cache", None, r))

ResolveDependencies ==
  \E plugin_names \in Requests :
    \E builtin_plugins \in
         IF discovered = EmptyDict THEN BuiltinRegistries ELSE {EmptyDict},
       files \in IF discovered = EmptyDict THEN NestedFileLists ELSE {<<>>} :
      \E r \in resolve_dependencies(discovered, dependency_graph, plugin_names,
                                     builtin_plugins, files) :
         Finds(r, DiscoveryCall("resolve_dependencies", plugin_names, r))

NextDiscovery ==
  \/ DiscoveryDiscoverPlugins
  \/ ClearCache
  \/ ResolveDependencies

SpecDiscovery == InitDiscovery /\ [][NextDiscovery]_vars

\* the text of a configuration file: its scalar fields and its nested
\* dicts and lists
Document(scalars, nested) == [scalars |-> scalars, nested |-> nested]

\* the texts a file can hold: a base document, one whose plugin list holds
\* a number, one with an empty framework, one that extends itself, one that
\* extends b.yaml; a document that extends a.yaml, one with its fields
\* under the ascend key, one without version, one with a log directory
\* under a directory that does not exist; a document that extends b.yaml
ConfigTexts ==
  ("base" :> Document(
      ("version" :> Scalar(<<"1.0">>)) @@ ("framework" :> Scalar(<<"ascend">>)),
      ("ascend" :> Dict(("mode" :> Scalar(<<"base">>)) @@ ("level" :> Scalar(<<"1">>))))
         @@ ("plugins" :> List(<<Scalar(<<"p">>)>>)))) @@
  ("numbers" :> Document(
      ("version" :> Scalar(<<"1.1">>)) @@ ("framework" :> Scalar(<<"ascend">>)),
      ("plugins" :> List(<<Number(<<"1">>)>>)))) @@
  ("blank_framework" :> Document(
      ("version" :> Scalar(<<"1.2">>)) @@ ("framework" :> Scalar(<<>>)),
      EmptyDict)) @@
  ("own" :> Document(
      ("_extends" :> Scalar(<<"a.yaml">>)) @@ ("version" :> Scalar(<<"1.3">>))
         @@ ("framework" :> Scalar(<<"ascend">>)),
      EmptyDict)) @@
  ("loop" :> Document(
      ("_extends" :> Scalar(<<"b.yaml">>)) @@ ("version" :> Scalar(<<"1.4">>))
         @@ ("framework" :> Scalar(<<"ascend">>)),
      EmptyDict)) @@
  ("paths" :> Document(
      ("version" :> Scalar(<<"2.2">>)) @@ ("framework" :> Scalar(<<"ascend">>)),
      ("training" :> Dict("log_dir" :> Scalar(<<"/missing/", "logs">>)))
         @@ ("plugins" :> List(<<Scalar(<<"p">>)>>)))) @@
  ("mid" :> Document(
      ("_extends" :> Scalar(<<"a.yaml">>)) @@ ("version" :> Scalar(<<"2.0">>))
         @@ ("framework" :> Scalar(<<"ascend">>)),
      ("ascend" :> Dict(("mode" :> Scalar(<<"mid">>)))))) @@
  ("namespaced" :> Document(
      EmptyDict,
      ("ascend" :> Dict(("version" :> Scalar(<<"2.1">>))
                           @@ ("framework" :> Scalar(<<"ascend">>)))))) @@
  ("no_version" :> Document(("framework" :> Scalar(<<"ascend">>)), EmptyDict)) @@
  ("top" :> Document(
      ("_extends" :> Scalar(<<"b.yaml">>)) @@ ("version" :> Scalar(<<"3.0">>))
         @@ ("framework" :> Scalar(<<"ascend">>)),
      ("plugins" :> List(<<Scalar(<<"q">>)>>))))

FileA == <<"/w/", "a.yaml">>
FileB == <<"/w/", "b.yaml">>
FileC == <<"/w/", "c.yaml">>

\* what each file can hold; "absent": there is no such file
FileChoices ==
  (FileA :> {"base", "numbers", "blank_framework", "own", "loop", "absent"}) @@
  (FileB :> {"mid", "namespaced", "no_version", "paths"}) @@
  (FileC :> {"top"})

\* the files that exist, with their texts
Texts(named) ==
  [path \in {q \in DOMAIN named : named[q] /= "absent"} |-> ConfigTexts[named[path]]]

\* the paths a caller passes: each file by its absolute path, and a.yaml
\* relative to the working directory as well
ConfigPaths == DOMAIN FileChoices \cup {Tail(FileA)}

LoadArgs(config_path, validate, cache) ==
  [config_path |-> config_path, validate |-> validate, cache |-> cache]

\* step: the place of the call in the run
ConfigCall(op, arg, r) ==
  [op |-> op, arg |-> arg, raised |-> r.raised, returned |-> r.returned,
   step |-> IF op = "ConfigLoader" THEN 0 ELSE last.step + 1]

\* the effect of a call of the loader on the state; the caller holds the
\* document returned
Keeps(r, call) ==
  /\ \E kept \in {Collected(r.heap, r.config_cache, r.returned,
                             Live(r.config_cache, r.returned))} :
        /\ config_cache' = kept.config_cache
        /\ heap' = kept.heap
        /\ last' = [call EXCEPT !.returned = kept.returned]
  /\ validator' = IF r.validated = None THEN validator ELSE r.validated[1]
  /\ UNCHANGED <<config_files, discovered, dependency_graph, plugins,
                 plugin_status, config, progress>>

\* ConfigLoader(): an empty cache
InitConfig ==
  /\ config_files \in [DOMAIN FileChoices -> UNION Range(FileChoices)]
  /\ \A path \in DOMAIN FileChoices : config_files[path] \in FileChoices[path]
  /\ config_cache = EmptyDict
  /\ heap = EmptyDict
  /\ validator = Lists(<<>>, <<>>)
  /\ last = ConfigCall("ConfigLoader", LoadArgs(<<>>, FALSE, FALSE),
                       Loaded(EmptyDict, EmptyDict, None, None))
  /\ discovered = EmptyDict
  /\ dependency_graph = EmptyDict
  /\ plugins = EmptyDict
  /\ plugin_status = EmptyDict
  /\ config = NoConfig
  /\ progress = [n \in Names |-> 0]

ConfigLoad ==
  /\ last.step < MaxCalls
  /\ \E config_path \in ConfigPaths, validate \in BOOLEAN, cache \in BOOLEAN :
      \E r \in {ConfigLoader_load(heap, config_cache, Texts(config_files),
                                   config_path, validate, cache, MaxDepth)} :
         Keeps(r, ConfigCall("load", LoadArgs(config_path, validate, cache), r))

ConfigReload ==
  /\ last.step < MaxCalls
  /\ \E config_path \in ConfigPaths, validate \in BOOLEAN :
      \E r \in {reload(heap, config_cache, Texts(config_files), config_path,
                        validate)} :
         Keeps(r, ConfigCall("reload", LoadArgs(config_path, validate, TRUE), r))

\* the file system: a file gets another text, is deleted or created
WriteFile ==
  /\ last.step < MaxCalls
  /\ \E path \in DOMAIN FileChoices :
      \E text \in FileChoices[path] \ {config_files[path]} :
         /\ config_files' = [config_files EXCEPT ![path] = text]
         /\ last' = [last EXCEPT !.op = "write",
                                 !.arg = LoadArgs(path, FALSE, FALSE),
                                 !.step = last.step + 1]
         /\ UNCHANGED <<config_cache, heap, validator, discovered, dependency_graph,
                      plugins, plugin_status, config, progress>>

Changed == Scalar(<<"changed">>)

\* the caller changes the document it was given: an item (one per object)
\* of a nested dict or list, or a key of the document itself
Mutate ==
  /\ last.step < MaxCalls
  /\ last.returned /= None
  /\ \/ \E id \in Refs(last.returned[1]) :
          \E k \in {CHOOSE j \in DOMAIN heap[id].items : TRUE} :
             /\ heap[id].items[k] /= Changed
             /\ heap' = [heap EXCEPT ![id].items[k] = Changed]
             /\ last' = [last EXCEPT !.op = "mutate", !.step = last.step + 1]
     \/ /\ "note" \notin DOMAIN last.returned[1]
        /\ heap' = heap
        /\ last' = [last EXCEPT !.op = "mutate", !.step = last.step + 1,
                                !.returned = Some(("note" :> Changed)
                                                     @@ last.returned[1])]
  /\ UNCHANGED <<config_files, config_cache, validator, discovered,
                 dependency_graph, plugins, plugin_status, config, progress>>

NextConfig ==
  \/ ConfigLoad
  \/ ConfigReload
  \/ WriteFile
  \/ Mutate

SpecConfig == InitConfig /\ [][NextConfig]_vars

-----------------------------------------------------------------------------
(* ConfigParser.merge on its own: the documents that a caller holds *)

\* what yaml.safe_load builds for a mapping given as a tree of values:
\* doc is the dict being filled, every dict and list in items a new object
RECURSIVE store(_, _, _, _)
stored_dict(sub, doc, items, keys, key) ==
  store((new_id(sub.heap) :> Dict(sub.doc)) @@ sub.heap,
        (key :> Ref(new_id(sub.heap))) @@ doc, items, keys \ {key})

store_key(h, doc, items, keys, key) ==
  IF items[key][1] = "dict"
  THEN stored_dict(store(h, EmptyDict, items[key][2], DOMAIN items[key][2]),
                   doc, items, keys, key)
  ELSE IF items[key][1] = "list"
  THEN store((new_id(h) :> List(items[key][2])) @@ h,
             (key :> Ref(new_id(h))) @@ doc, items, keys \ {key})
  ELSE store(h, (key :> items[key]) @@ doc, items, keys \ {key})

store(h, doc, items, keys) ==
  IF keys = {} THEN Parsed(h, None, doc)
  ELSE store_key(h, doc, items, keys, CHOOSE k \in keys : TRUE)

\* a dict and a list as values of a tree
DictOf(items) == <<"dict", items, 0>>
ListOf(items) == <<"list", items, 0>>

\* the values under a key: scalars, lists, dicts, and dicts in dicts
MergeValues ==
  {Scalar(<<"a">>), Scalar(<<"b">>),
   ListOf(<<Scalar(<<"a">>)>>), ListOf(<<Scalar(<<"b">>), Scalar(<<"c">>)>>),
   DictOf("x" :> Scalar(<<"a">>)),
   DictOf(("x" :> Scalar(<<"b">>)) @@ ("y" :> Scalar(<<"a">>))),
   DictOf("x" :> DictOf("z" :> Scalar(<<"a">>))),
   DictOf(("x" :> DictOf(("z" :> Scalar(<<"b">>)) @@ ("w" :> Scalar(<<"a">>))))
            @@ ("y" :> ListOf(<<Scalar(<<"a">>)>>)))}

\* the documents merged: the empty one, those with one key, and those with
\* a second key as well
MergeTrees ==
  {EmptyDict}
    \cup {"k" :> v : v \in MergeValues}
    \cup {("k" :> v) @@ ("n" :> Scalar(<<"b">>)) :
            v \in {Scalar(<<"a">>), DictOf("x" :> DictOf("z" :> Scalar(<<"a">>)))}}

\* two documents read one after the other
TwoRead(first, tree) ==
  CHOOSE out \in
    {[heap |-> second.heap, held |-> <<first.doc, second.doc>>] :
       second \in {store(first.heap, EmptyDict, tree, DOMAIN tree)}} : TRUE

InitMerge ==
  /\ \E a, b \in MergeTrees :
        \E read \in {TwoRead(store(EmptyDict, EmptyDict, a, DOMAIN a), b)} :
           /\ heap = read.heap
           /\ last = [op |-> "ConfigParser", held |-> read.held, arg |-> <<>>,
                      raised |-> None, returned |-> None, step |-> 0]
  /\ config_files = EmptyDict
  /\ config_cache = EmptyDict
  /\ validator = Lists(<<>>, <<>>)
  /\ discovered = EmptyDict
  /\ dependency_graph = EmptyDict
  /\ plugins = EmptyDict
  /\ plugin_status = EmptyDict
  /\ config = NoConfig
  /\ progress = [n \in Names |-> 0]

\* the documents in the caller's hands: the two read, an empty one and
\* what the last merge returned
Operands ==
  {last.held[1], last.held[2], EmptyDict}
    \cup (IF last.returned = None THEN {} ELSE {last.returned[1]})

\* ConfigParser.merge(base_config, override_config)
ParserMerge ==
  /\ last.step < MaxMerges
  /\ \E base_config, override_config \in Operands :
        \E r \in {merge(heap, base_config, override_config)} :
           /\ heap' = r.heap
           /\ last' = [last EXCEPT !.op = "merge",
                                   !.arg = <<base_config, override_config>>,
                                   !.returned = Some(r.doc),
                                   !.step = last.step + 1]
  /\ UNCHANGED <<config_files, config_cache, validator, discovered,
                 dependency_graph, plugins, plugin_status, config, progress>>

NextMerge == ParserMerge

SpecMerge == InitMerge /\ [][NextMerge]_vars

-----------------------------------------------------------------------------
(* core/types.py: Experience *)

\* Experience(state, action, reward, next_state, done, info): info is None
\* or Some(dict)
Experience(state, action, reward, next_state, done, info) ==
  [state |-> state, action |-> action, reward |-> reward,
   next_state |-> next_state, done |-> done, info |-> info]

\* to_dict that writes the state under both keys
to_dict_state_twice(self) ==
  [state |-> self.state, action |-> self.action, reward |-> self.reward,
   next_state |-> self.state, done |-> self.done,
   info |-> IF Truthy(self.info) THEN self.info ELSE Some(EmptyDict)]

\* Experience.to_dict(): 'info': self.info or {}
to_dict(self) ==
  [state |-> self.state, action |-> self.action, reward |-> self.reward,
   next_state |-> self.next_state, done |-> self.done,
   info |-> IF Truthy(self.info) THEN self.info ELSE Some(EmptyDict)]

\* dict.get(key): None when the key is not there
dict_get(data, key) == IF key \in DOMAIN data THEN data[key] ELSE None

\* Experience.from_dict(data)
from_dict(data) ==
  Experience(data["state"], data["action"], data["reward"], data["next_state"],
             data["done"], dict_get(data, "info"))

\* the experiences of the model
Observations == {"observation" :> <<1, 2, 3>>, "observation" :> <<1, 2, 4>>}
Infos == {None, Some(EmptyDict), Some("step" :> 1)}
Experiences ==
  {Experience(state, action, reward, next_state, done, info) :
     state \in Observations, action \in {0, 1}, reward \in {0, 1},
     next_state \in Observations, done \in BOOLEAN, info \in Infos}

InitExperience ==
  /\ last = [op |-> "types", exp |-> None, exp_dict |-> None,
             exp_from_dict |-> None]
  /\ NoLoader
  /\ discovered = EmptyDict
  /\ dependency_graph = EmptyDict
  /\ plugins = EmptyDict
  /\ plugin_status = EmptyDict
  /\ config = NoConfig
  /\ progress = [n \in Names |-> 0]

\* exp = Experience(...)
NewExperience ==
  /\ last.op = "types"
  /\ \E exp \in Experiences :
        last' = [last EXCEPT !.op = "Experience", !.exp = Some(exp)]
  /\ UNCHANGED <<config_files, config_cache, heap, validator, discovered,
                 dependency_graph, plugins, plugin_status, config, progress>>

\* exp_dict = exp.to_dict()
ToDict ==
  /\ last.op = "Experience"
  /\ last' = [last EXCEPT !.op = "to_dict",
                          !.exp_dict = Some(to_dict(last.exp[1]))]
  /\ UNCHANGED <<config_files, config_cache, heap, validator, discovered,
                 dependency_graph, plugins, plugin_status, config, progress>>

\* a consumer of the dict deletes its info item
DeleteInfo ==
  /\ last.op = "to_dict"
  /\ last' = [last EXCEPT !.op = "del",
                          !.exp_dict = Some([k \in DOMAIN last.exp_dict[1] \ {"info"}
                                               |-> last.exp_dict[1][k]])]
  /\ UNCHANGED <<config_files, config_cache, heap, validator, discovered,
                 dependency_graph, plugins, plugin_status, config, progress>>

\* exp_from_dict = Experience.from_dict(exp_dict)
FromDict ==
  /\ last.op \in {"to_dict", "del"}
  /\ last' = [last EXCEPT !.op = IF last.op = "del" THEN "from_dict_del"
                                 ELSE "from_dict",
                          !.exp_from_dict = Some(from_dict(last.exp_dict[1]))]
  /\ UNCHANGED <<config_files, config_cache, heap, validator, discovered,
                 dependency_graph, plugins, plugin_status, config, progress>>

NextExperience ==
  \/ NewExperience
  \/ ToDict
  \/ DeleteInfo
  \/ FromDict

SpecExperience == InitExperience /\ [][NextExperience]_vars

-----------------------------------------------------------------------------
(* version_utils on its own *)

\* the versions of a plugin, lowest first
Releases == <<<<"0.9.0">>, <<"1.0.0">>, <<"1.2.3">>, <<"1.5.0">>, <<"2.0.0">>>>

\* the constraints: an operator and a version, with or without a blank
\* between them, and a bare version
Clauses ==
  {<<op>> \o v : op \in Operators, v \in Range(Releases)}
    \cup {<<op, " ">> \o v : op \in Operators, v \in Range(Releases)}
    \cup Range(Releases)

InitVersion ==
  /\ last = [op |-> "version_utils", arg |-> <<>>, returned |-> None]
  /\ NoLoader
  /\ discovered = EmptyDict
  /\ dependency_graph = EmptyDict
  /\ plugins = EmptyDict
  /\ plugin_status = EmptyDict
  /\ config = NoConfig
  /\ progress = [n \in Names |-> 0]

\* check_version_compatibility(actual_version, constraint)
CheckVersionCompatibility ==
  /\ last.op = "version_utils"
  /\ \E actual_version \in Range(Releases), constraint \in Clauses :
        last' = [op |-> "check_version_compatibility",
                 arg |-> <<actual_version, constraint>>,
                 returned |-> Some(check_version_compatibility(
                                     actual_version, constraint))]
  /\ UNCHANGED <<config_files, config_cache, heap, validator, discovered,
                 dependency_graph, plugins, plugin_status, config, progress>>

\* validate_plugin_version(plugin_info, constraint): the descriptor with or
\* without a version, the constraint absent, empty or a clause
ValidatePluginVersion ==
  /\ last.op = "version_utils"
  /\ \E actual_version \in Range(Releases) \cup {<<>>},
        constraint \in {None, Some(<<>>)} \cup {Some(c) : c \in Clauses} :
        last' = [op |-> "validate_plugin_version",
                 arg |-> <<actual_version, constraint>>,
                 returned |-> Some(validate_plugin_version(
                                     actual_version, constraint))]
  /\ UNCHANGED <<config_files, config_cache, heap, validator, discovered,
                 dependency_graph, plugins, plugin_status, config, progress>>

NextVersion ==
  \/ CheckVersionCompatibility
  \/ ValidatePluginVersion

SpecVersion == InitVersion /\ [][NextVersion]_vars

-----------------------------------------------------------------------------
(* The substitution of the environment in a string leaf *)

\* the values of a variable of the environment, and the environments: X
\* and Y each set or not
EnvValues == {<<"v">>, <<"1">>, <<"1", ".", "5">>, <<"True">>, <<"\\1">>}
Environs ==
  UNION {[names -> EnvValues] : names \in SUBSET {"X", "Y"}}

\* the string leaves: text, digits and placeholders
RECURSIVE Leaves(_)
Leaves(n) ==
  IF n = 0 THEN {<<>>}
  ELSE Leaves(n - 1)
         \cup {Append(leaf, token) :
                 leaf \in {l \in Leaves(n - 1) : Len(l) = n - 1},
                 token \in {"a", "5", "${X}", "${Y}"}}

\* a process with its environment, and a parser
InitEnv ==
  /\ last = [op |-> "ConfigParser", environ |-> EmptyDict, arg |-> <<>>,
             returned |-> None]
  /\ NoLoader
  /\ discovered = EmptyDict
  /\ dependency_graph = EmptyDict
  /\ plugins = EmptyDict
  /\ plugin_status = EmptyDict
  /\ config = NoConfig
  /\ progress = [n \in Names |-> 0]

\* os.environ set before a document is parsed
SetEnviron ==
  /\ last.op = "ConfigParser"
  /\ \E environ \in Environs \ {EmptyDict} :
        last' = [last EXCEPT !.op = "environ", !.environ = environ]
  /\ UNCHANGED <<config_files, config_cache, heap, validator, discovered,
                 dependency_graph, plugins, plugin_status, config, progress>>

\* ConfigParser._resolve_env_var_string(value) on a string leaf
ResolveEnvVarString ==
  /\ last.op \in {"ConfigParser", "environ"}
  /\ \E value \in Leaves(MaxTokens) :
        last' = [last EXCEPT !.op = "resolve", !.arg = value,
                             !.returned = Some(resolve_env_var_string(
                                                 last.environ, value))]
  /\ UNCHANGED <<config_files, config_cache, heap, validator, discovered,
                 dependency_graph, plugins, plugin_status, config, progress>>

NextEnv ==
  \/ SetEnviron
  \/ ResolveEnvVarString

SpecEnv == InitEnv /\ [][NextEnv]_vars

-----------------------------------------------------------------------------
(* ConfigValidator on its own *)

\* a number: a sign and digits
Minus(digits) == Number(<<"-">> \o digits)

\* what a document has under plugins and under training, None when it has
\* no such key
PluginsValues ==
  {None,
   Some(ListOf(<<Scalar(<<"p">>)>>)),
   Some(ListOf(<<Number(<<"1">>)>>)),
   Some(ListOf(<<Scalar(<<"p">>), Number(<<"1">>)>>)),
   Some(Scalar(<<"p">>))}

TrainingValues ==
  {None,
   Some(DictOf("log_dir" :> Scalar(<<"/w/", "logs">>))),
   Some(DictOf("log_dir" :> Scalar(<<"/missing/", "logs">>))),
   Some(DictOf(("log_dir" :> Scalar(<<"/missing/", "logs">>))
                 @@ ("checkpoint_dir" :> Scalar(<<"/gone/", "points">>)))),
   Some(DictOf(("log_dir" :> Scalar(<<>>))
                 @@ ("total_timesteps" :> Number(<<"5">>)))),
   Some(DictOf("total_timesteps" :> Minus(<<"1">>))),
   Some(DictOf("total_timesteps" :> Scalar(<<"many">>)))}

\* the document with these values, and the documents validated
Under(key, value) == IF value = None THEN EmptyDict ELSE key :> value[1]
ValidatorTrees ==
  {NotADict}
    \cup {("version" :> Scalar(<<"1.0">>)) @@ Under("plugins", p)
            @@ Under("training", t) :
             p \in PluginsValues, t \in TrainingValues}

\* ConfigValidator(): empty lists
InitValidator ==
  /\ validator = Lists(<<>>, <<>>)
  /\ heap = EmptyDict
  /\ last = [op |-> "ConfigValidator", arg |-> <<>>, raised |-> None,
             returned |-> None]
  /\ config_files = EmptyDict
  /\ config_cache = EmptyDict
  /\ discovered = EmptyDict
  /\ dependency_graph = EmptyDict
  /\ plugins = EmptyDict
  /\ plugin_status = EmptyDict
  /\ config = NoConfig
  /\ progress = [n \in Names |-> 0]

\* ConfigValidator.validate(cfg, strict) of a document just read
ValidatorValidate ==
  \E tree \in ValidatorTrees, strict \in BOOLEAN :
    \E read \in {store(EmptyDict, EmptyDict, tree, DOMAIN tree)} :
       \E verdict \in {validator_validate(read.heap, read.doc, strict)} :
          /\ heap' = read.heap
          /\ validator' = verdict.lists
          /\ last' = [op |-> "validate",
                      arg |-> [cfg |-> read.doc, strict |-> strict],
                      raised |-> verdict.raised, returned |-> verdict.returned]
          /\ UNCHANGED <<config_files, config_cache, discovered,
                         dependency_graph, plugins, plugin_status, config,
                         progress>>

\* ConfigValidator.clear()
ValidatorClear ==
  /\ last.op = "validate"
  /\ validator' = Lists(<<>>, <<>>)
  /\ last' = [last EXCEPT !.op = "clear"]
  /\ UNCHANGED <<heap, config_files, config_cache, discovered, dependency_graph,
                 plugins, plugin_status, config, progress>>

NextValidator ==
  \/ ValidatorValidate
  \/ ValidatorClear

SpecValidator == InitValidator /\ [][NextValidator]_vars

-----------------------------------------------------------------------------
(* Properties of the lifecycle *)

Known(n) == n \in DOMAIN plugin_status
Is(n, state) == n \in DOMAIN plugin_status /\ plugin_status[n].state = state
Raised(call) == call.raised /= None
RaisedPluginError(call) == call.raised /= None /\ call.raised[1].type = "PluginError"
Reached(call, step, n) == <<step, n>> \in Range(call.events)

\* C1: start_plugin on a plugin that is not Initialized (or has no status
\* entry) and stop_plugin on a plugin that is not Running raise a PluginError
\* and leave the status map and the instance map as they were.
C1_RefusedStartStop ==
  [][/\ (last'.op = "start_plugin" /\ ~Is(last'.arg, INITIALIZED))
          => (RaisedPluginError(last') /\ plugin_status' = plugin_status
              /\ plugins' = plugins)
     /\ (last'.op = "stop_plugin" /\ ~Is(last'.arg, RUNNING))
          => (RaisedPluginError(last') /\ plugin_status' = plugin_status
              /\ plugins' = plugins)]_vars

\* start was refused on a Loaded plugin, which is still Loaded
C1_Witness ==
  /\ last.op = "start_plugin"
  /\ RaisedPluginError(last)
  /\ Is(last.arg, LOADED)

\* C2: initialize_plugin on a plugin whose state is Discovered, Initialized,
\* Running, Stopped or Error raises and does not move it to Initialized.
C2_InitializeOnlyFromLoaded ==
  [][(/\ last'.op = "initialize_plugin"
      /\ Known(last'.arg[1])
      /\ plugin_status[last'.arg[1]].state
            \in {DISCOVERED, INITIALIZED, RUNNING, STOPPED, ERROR})
       => (Raised(last') /\ plugin_status'[last'.arg[1]].state /= INITIALIZED)]_vars

\* C3: a plugin that is Initialized, Running or Stopped has every flag of
\* its status.dependencies true.
C3_DependenciesSatisfied ==
  \A n \in DOMAIN plugin_status :
    plugin_status[n].state \in {INITIALIZED, RUNNING, STOPPED}
      => \A dep \in DOMAIN plugin_status[n].dependencies :
            plugin_status[n].dependencies[dep]

\* a plugin with a declared dependency has been initialized
C3_Witness ==
  /\ Is(PA, INITIALIZED)
  /\ PB \in DOMAIN plugin_status[PA].dependencies
  /\ last.op = "initialize_plugin"

\* C4: Running is entered only by a successful start_plugin from
\* Initialized, Initialized only by a successful initialize_plugin of a
\* plugin with an instance, Stopped only by a successful stop_plugin from
\* Running; and a Running plugin has been loaded, then initialized, then
\* started since its status entry was created.
C4_Entered(n) ==
  /\ (Is(n, RUNNING)' /\ ~Is(n, RUNNING))
       => (/\ last'.op = "start_plugin" /\ last'.arg = n /\ ~Raised(last')
           /\ Is(n, INITIALIZED))
  /\ (Is(n, INITIALIZED)' /\ ~Is(n, INITIALIZED))
       => (/\ last'.op = "initialize_plugin" /\ last'.arg[1] = n /\ ~Raised(last')
           /\ n \in DOMAIN plugins)
  /\ (Is(n, STOPPED)' /\ ~Is(n, STOPPED))
       => (/\ last'.op = "stop_plugin" /\ last'.arg = n /\ ~Raised(last')
           /\ Is(n, RUNNING))

C4_LifecycleOrder ==
  /\ [][\A n \in Names : C4_Entered(n)]_vars
  /\ [](\A n \in Names : Is(n, RUNNING) => progress[n] = 3)

\* a plugin is Running after a successful start
C4_Witness ==
  /\ last.op = "start_plugin"
  /\ ~Raised(last)
  /\ Is(last.arg, RUNNING)
  /\ progress[last.arg] = 3

\* the calls whose body (the part inside try) raised
BodyRaised(call) ==
  /\ call.op \in {"load_plugin", "initialize_plugin", "start_plugin", "stop_plugin"}
  /\ Raised(call)
  /\ call.raised[1].message[1] \in
        {"plugin load failed ", "plugin initialization failed ",
         "plugin start failed ", "plugin stop failed "}

Subject(call) ==
  IF call.op = "load_plugin" THEN parse_version_constraint(call.arg)[1]
  ELSE IF call.op = "initialize_plugin" THEN call.arg[1]
  ELSE call.arg

Spelled(call) == IF call.op = "initialize_plugin" THEN call.arg[1] ELSE call.arg

\* C5: when the body of load_plugin, initialize_plugin, start_plugin or
\* stop_plugin raises for P, P's status afterwards is Error with the
\* non-empty text of the exception, and the caller gets a PluginError that
\* names the operation and P and carries that text.
C5_FailureRecorded ==
  BodyRaised(last)
    => /\ Is(Subject(last), ERROR)
       /\ plugin_status[Subject(last)].error /= None
       /\ NonEmpty(plugin_status[Subject(last)].error[1])
       /\ RaisedPluginError(last)
       /\ last.raised[1].message =
            <<last.raised[1].message[1]>> \o Spelled(last) \o <<": ">>
               \o plugin_status[Subject(last)].error[1]

\* C6: unload_plugin of a Running plugin calls stop first and, whether or
\* not stop raises, returns normally with the instance and the status entry
\* removed.
C6_UnloadBestEffort ==
  [][(last'.op = "unload_plugin" /\ Is(last'.arg, RUNNING)
      /\ last'.arg \in DOMAIN plugins)
       => (/\ Reached(last', "stop", last'.arg)
           /\ ~Raised(last')
           /\ last'.arg \notin DOMAIN plugins'
           /\ last'.arg \notin DOMAIN plugin_status')]_vars

\* C7: after unload_plugin returns normally, the plugin has neither a
\* status entry nor an instance, whatever its state was.
C7_UnloadRemoves ==
  (last.op = "unload_plugin" /\ ~Raised(last))
    => (last.arg \notin DOMAIN plugin_status /\ last.arg \notin DOMAIN plugins)

-----------------------------------------------------------------------------
(* Properties of the batch operations *)

Attempted(call) == {call.attempts[i].spec : i \in DOMAIN call.attempts}

\* C8: clear_all_plugins (and __exit__) calls unload_plugin once for every
\* plugin that has an instance when it is called; an unload that raises is
\* passed over, the plugins after it are still unloaded, every plugin whose
\* unload returned is gone (instance and status), and nothing is raised.
C8_ClearAllSweeps ==
  [][last'.op \in {"clear_all_plugins", "__exit__"}
       => /\ ~Raised(last')
          /\ Len(last'.attempts) = Cardinality(DOMAIN plugins)
          /\ Attempted(last') = DOMAIN plugins
          /\ \A i \in DOMAIN last'.attempts :
               /\ Reached(last'.attempts[i], "unload", last'.attempts[i].spec)
               /\ ~Raised(last'.attempts[i])
                    => /\ last'.attempts[i].spec \notin DOMAIN plugins'
                       /\ last'.attempts[i].spec \notin DOMAIN plugin_status']_vars

\* a sweep in which one unload raised and a later one went through
C8_Witness ==
  /\ last.op = "clear_all_plugins"
  /\ ~Raised(last)
  /\ \E i, j \in DOMAIN last.attempts :
       /\ i < j
       /\ Raised(last.attempts[i])
       /\ ~Raised(last.attempts[j])
       /\ last.attempts[i].spec \in DOMAIN plugins
       /\ last.attempts[j].spec \notin DOMAIN plugins

\* the specs of a call that failed, in order
RECURSIVE FailedSpecs(_)
FailedSpecs(attempts) ==
  IF attempts = <<>> THEN <<>>
  ELSE (IF Raised(Head(attempts)) THEN <<Head(attempts).spec>> ELSE <<>>)
          \o FailedSpecs(Tail(attempts))

\* C9: load_plugins over discovered plugins without dependencies attempts
\* every spec in list order; a plugin whose constructor succeeds ends Loaded
\* with an instance, one whose constructor throws ends in Error with a
\* non-empty error and no instance, and the call raises one PluginError
\* naming exactly the failed specs.
C9_BatchIsolation ==
  (/\ last.op = "load_plugins"
   /\ last.arg[2] = None
   /\ Range(last.arg[1]) \subseteq DOMAIN discovered
   /\ \A n \in DOMAIN discovered : discovered[n].dependencies = <<>>)
    => /\ Len(last.attempts) = Len(last.arg[1])
       /\ \A i \in DOMAIN last.attempts :
            LET n == last.arg[1][i]
                at == last.attempts[i]
            IN /\ at.spec = n
               /\ (Reached(at, "construct", n) /\ ~Raised(at))
                    => (n \in DOMAIN plugins /\ Is(n, LOADED))
               /\ (Reached(at, "construct", n) /\ Raised(at))
                    => /\ n \notin DOMAIN plugins
                       /\ Is(n, ERROR)
                       /\ plugin_status[n].error /= None
                       /\ NonEmpty(plugin_status[n].error[1])
       /\ (FailedSpecs(last.attempts) = <<>>) = ~Raised(last)
       /\ Raised(last)
            => /\ RaisedPluginError(last)
               /\ last.raised[1].message =
                    <<"plugin load failed: ">> \o join(FailedSpecs(last.attempts))

\* C10: Ascend.scan_and_load_plugins attempts every spec of its list, also
\* after one of them failed, and reports the specs that failed.
C10_FacadeContinues ==
  last.op = "scan_and_load_plugins"
    => LET specs == IF last.arg = None THEN Get(config, <<"plugins">>, <<>>)
                    ELSE last.arg[1]
       IN /\ Len(last.attempts) = Len(specs)
          /\ \A i \in DOMAIN last.attempts :
               /\ last.attempts[i].spec = specs[i]
               /\ ~Raised(last.attempts[i])
                    => Is(parse_version_constraint(specs[i])[1], INITIALIZED)
          /\ last.failed = FailedSpecs(last.attempts)

-----------------------------------------------------------------------------
(* Properties of version constraints and dependencies *)

\* an attempt in which a plugin body (constructor, configure) threw
BodyThrew(at) == Raised(at) /\ "boom in " \in Range(at.raised[1].message)

Mentions(message, tokens) ==
  \E i \in 1..(Len(message) - Len(tokens) + 1) :
     SubSeq(message, i, i + Len(tokens) - 1) = tokens

\* C11: with a and b Discovered and b's instance reporting 1.5.0,
\* load_plugins(["a", "b:>=2.0.0"]) (no plugin body throwing) raises a
\* PluginError that names the spec b:>=2.0.0, the attempt on b fails on the
\* version check, a ends Loaded with an instance and b has no instance.
C11_VersionFailureIsolated ==
  [][(/\ last'.op = "load_plugins"
      /\ last'.arg = <<(<<PA, B_ge_2>>), None>>
      /\ Is(PA, DISCOVERED) /\ Is(PB, DISCOVERED)
      /\ \A i \in DOMAIN last'.attempts : ~BodyThrew(last'.attempts[i]))
       => (/\ RaisedPluginError(last')
           /\ Mentions(last'.raised[1].message, B_ge_2)
           /\ Len(last'.attempts) = 2
           /\ ~Raised(last'.attempts[1])
           /\ Raised(last'.attempts[2])
           /\ Mentions(last'.attempts[2].raised[1].message,
                       <<"plugin ">> \o PB \o <<" version ">> \o PluginVersion[PB]
                          \o <<" does not satisfy: ">> \o <<">=", "2.0.0">>)
           /\ PA \in DOMAIN plugins'
           /\ plugin_status'[PA].state = LOADED
           /\ PB \notin DOMAIN plugins')]_vars

\* the list was loaded from the Discovered state: b failed, a is Loaded
C11_Witness ==
  /\ last.op = "load_plugins"
  /\ last.arg = <<(<<PA, B_ge_2>>), None>>
  /\ RaisedPluginError(last)
  /\ last.failed = <<B_ge_2>>
  /\ Is(PA, LOADED) /\ PA \in DOMAIN plugins
  /\ Is(PB, ERROR) /\ PB \notin DOMAIN plugins

\* C12: a load_plugin("name:constraint") with a non-empty constraint that
\* returns leaves an instance whose version satisfies the constraint.
C12_ConstraintAlwaysChecked ==
  (/\ last.op = "load_plugin"
   /\ Truthy(parse_version_constraint(last.arg)[2])
   /\ ~Raised(last))
    => /\ parse_version_constraint(last.arg)[1] \in DOMAIN plugins
       /\ validate_plugin_version(
            plugins[parse_version_constraint(last.arg)[1]].version,
            parse_version_constraint(last.arg)[2])

\* the transitive dependencies of name in the descriptor table
Dependencies(name) ==
  Closure(discovered, {name}, Cardinality(Names)) \ {name}

\* position of the first event <<step, n>> of the call (0 when absent)
FirstAt(call, step, n) ==
  IF Reached(call, step, n)
  THEN CHOOSE i \in DOMAIN call.events :
         /\ call.events[i] = <<step, n>>
         /\ \A j \in 1..(i - 1) : call.events[j] /= <<step, n>>
  ELSE 0

DependencyFailed(call) ==
  /\ call.op = "load_plugin"
  /\ Subject(call) \in DOMAIN discovered
  /\ \E dep \in Range(discovered[Subject(call)].dependencies) :
       /\ Reached(call, "construct", dep)
       /\ ~Reached(call, "loaded", dep)

-----------------------------------------------------------------------------
(* Properties of the discovery *)

\* the classes the files of a discovery run define, the last file of a name
\* winning, and the built-in classes no file redefines
Declared(builtin_plugins, files) ==
  {files[i].class : i \in {k \in DOMAIN files :
       /\ files[k].kind = "class"
       /\ \A l \in (k + 1)..Len(files) :
            files[l].kind = "class" => files[l].class.name /= files[k].class.name}}
  \cup {builtin_plugins[n] : n \in {m \in DOMAIN builtin_plugins :
       \A l \in DOMAIN files :
          files[l].kind = "class" => files[l].class.name /= m}}

\* C15: after PluginDiscovery.discover_plugins the descriptor of every
\* class found carries the version and the required plugins the class
\* declares, and the dependency graph maps its name to those plugins.
C15_DescriptorsAsDeclared ==
  last.op = "PluginDiscovery.discover_plugins"
    => \A class \in Declared(last.arg[1], last.arg[2]) :
          /\ class.name \in DOMAIN discovered
          /\ discovered[class.name].version = class.version
          /\ discovered[class.name].dependencies = class.requires
          /\ dependency_graph[class.name] = Range(class.requires)

\* the names reached from names along the declared dependencies
Expanded(names) == Closure(discovered, names, Cardinality(Names))

\* some plugin reached from names depends, directly or not, on itself
Cyclic(names) ==
  \E n \in Expanded(names) \cap DOMAIN discovered :
     n \in Expanded(Range(discovered[n].dependencies))

\* C16: for a list of discovered names whose expanded dependency graph has
\* only discovered names and no cycle, resolve_dependencies returns a list
\* that holds every requested name and every dependency of every name in it.
C16_DependencyClosure ==
  (/\ last.op = "resolve_dependencies"
   /\ Expanded(Range(last.arg)) \subseteq DOMAIN discovered
   /\ ~Cyclic(Range(last.arg)))
    => /\ ~Raised(last)
       /\ last.returned /= None
       /\ Range(last.arg) \subseteq Range(last.returned[1])
       /\ \A n \in Range(last.returned[1]) :
            Range(discovered[n].dependencies) \subseteq Range(last.returned[1])

\* a request for a alone came back with a, b and c
C16_Witness ==
  /\ last.op = "resolve_dependencies"
  /\ last.arg = <<PA>>
  /\ last.returned /= None
  /\ Range(last.returned[1]) = {PA, PB, PC}

\* C17: in a list resolve_dependencies returns, a dependency of a plugin
\* stands at a strictly smaller index than the plugin.
C17_TopologicalOrder ==
  (last.op = "resolve_dependencies" /\ last.returned /= None)
    => \A i, j \in DOMAIN last.returned[1] :
          last.returned[1][j] \in dependency_graph[last.returned[1][i]] => j < i

\* a returned list of three with c before b before a, the request naming
\* them the other way round
C17_Witness ==
  /\ last.op = "resolve_dependencies"
  /\ last.arg = <<PA, PB>>
  /\ last.returned = Some(<<PC, PB, PA>>)

\* C18: when the plugins reached from the request contain a cycle, also a
\* plugin depending on itself, resolve_dependencies raises a PluginError and
\* returns no list.
C18_CycleRaises ==
  (last.op = "resolve_dependencies" /\ Cyclic(Range(last.arg)))
    => (RaisedPluginError(last) /\ last.returned = None)

\* a cycle among discovered plugins was reported
C18_Witness ==
  /\ last.op = "resolve_dependencies"
  /\ Cyclic(Range(last.arg))
  /\ Expanded(Range(last.arg)) \subseteq DOMAIN discovered
  /\ RaisedPluginError(last)
  /\ last.raised[1].message = <<"Circular dependency detected among plugins">>

\* C19: when a requested name, or a name reached through dependencies, is
\* not discovered, resolve_dependencies raises a PluginError that names
\* such a plugin, and returns no list.
C19_UnknownRaises ==
  (/\ last.op = "resolve_dependencies"
   /\ ~(Expanded(Range(last.arg)) \subseteq DOMAIN discovered))
    => /\ RaisedPluginError(last)
       /\ last.returned = None
       /\ \E n \in Expanded(Range(last.arg)) \ DOMAIN discovered :
            last.raised[1].message = <<"Unknown plugin: ">> \o n

\* the unknown plugin was reached through a dependency of a requested one
C19_Witness ==
  /\ last.op = "resolve_dependencies"
  /\ Range(last.arg) \subseteq DOMAIN discovered
  /\ RaisedPluginError(last)
  /\ last.raised[1].message = <<"Unknown plugin: ">> \o PX

\* C20: PluginDiscovery.discover_plugins returns whatever the files do: a
\* file that fails to load or holds no plugin type adds no descriptor, and
\* every file that holds a plugin class has a descriptor under its name.
C20_BadFileSkipped ==
  [][last'.op = "PluginDiscovery.discover_plugins"
       => (/\ ~Raised(last')
           /\ DOMAIN discovered' =
                DOMAIN discovered \cup DOMAIN last'.arg[1]
                   \cup {last'.arg[2][i].class.name :
                           i \in {k \in DOMAIN last'.arg[2] :
                                    last'.arg[2][k].kind = "class"}}
           /\ \A n \in DOMAIN discovered \ {c.name : c \in Declared(last'.arg[1], last'.arg[2])} :
                discovered'[n] = discovered[n]
           /\ last'.returned = Some(discovered'))]_vars

\* a file that could not be loaded came before a file with a plugin class,
\* whose descriptor is there
C20_Witness ==
  /\ last.op = "PluginDiscovery.discover_plugins"
  /\ last.arg[2] = <<Unreadable, WithClass(ClassC)>>
  /\ ~Raised(last)
  /\ PC \in DOMAIN discovered

-----------------------------------------------------------------------------
(* Properties of the status records *)

\* C21: between operations a status entry has an error text only while its
\* state is Error; a plugin that left Error through a later successful load
\* or initialize has no error text.
C21_ErrorOnlyInError ==
  \A n \in DOMAIN plugin_status :
     plugin_status[n].error /= None => plugin_status[n].state = ERROR

C23_MapsInSync ==
  /\ DOMAIN plugins \subseteq DOMAIN plugin_status
  /\ \A n \in DOMAIN plugin_status :
        plugin_status[n].state \in {LOADED, INITIALIZED, RUNNING, STOPPED}
          => n \in DOMAIN plugins

\* a plugin was unloaded, entry and instance, while another keeps both
C23_Witness ==
  /\ last.op = "unload_plugin"
  /\ Reached(last, "removed", last.arg)
  /\ last.arg \notin DOMAIN plugins
  /\ last.arg \notin DOMAIN plugin_status
  /\ DOMAIN plugins /= {}

\* C24: load_plugin of a plugin whose state is Error attempts the load
\* again: when it returns, a new instance was constructed and the state is
\* Loaded; when it raises, the state is Error; whichever of load,
\* initialize, start or stop put the plugin into Error.
C24_ReloadFromError ==
  [][(last'.op = "load_plugin" /\ Is(Subject(last'), ERROR))
       => /\ Subject(last') \in DOMAIN plugin_status'
          /\ ~Raised(last')
               => /\ Reached(last', "construct", Subject(last'))
                  /\ plugin_status'[Subject(last')].state = LOADED
          /\ Raised(last') => plugin_status'[Subject(last')].state = ERROR]_vars


(***************************************************************************)
(* Properties of the configuration loader                                  *)
(***************************************************************************)

\* the call that last returned to the caller was a load or a reload that
\* gave a document
Gave == last.op \in {"load", "reload"} /\ last.raised = None /\ last.returned /= None

\* C25: no document that load returns and no document in the cache has a
\* top-level _extends key, however long the chain of bases is
C25_MarkerStripped ==
  /\ last.returned /= None => "_extends" \notin DOMAIN last.returned[1]
  /\ \A path \in DOMAIN config_cache : "_extends" \notin DOMAIN config_cache[path]

\* c.yaml, which extends b.yaml, which extends a.yaml, was loaded by a
\* loader with an empty cache
C25_Witness ==
  /\ Gave
  /\ last.step = 1
  /\ last.arg.config_path = FileC
  /\ config_files[FileB] = "mid"
  /\ FileA \in DOMAIN config_cache
  /\ FileB \in DOMAIN config_cache


\* a document as a tree of values: every nested dict or list in the place
\* of the reference to it
Tree(h, doc) ==
  [k \in DOMAIN doc |->
     IF doc[k][1] = "ref"
     THEN <<h[doc[k][3]].type, h[doc[k][3]].items, 0>>
     ELSE doc[k]]

\* the document of the file at path, read into h
Read(h, F, path) == parse(h, F[path].scalars, F[path].nested, DOMAIN F[path].nested)

\* ConfigParser.merge of the document override, read into the heap of the
\* document base, over base
Over(base, override) == merge(override.heap, base.doc, override.doc)
OverFile(base, F, path) ==
  CHOOSE out \in {Over(base, override) : override \in {Read(base.heap, F, path)}} : TRUE

\* merge(merge(A, B), C) of the documents of a.yaml, b.yaml and c.yaml
\* without the _extends key, as a tree of values
Unmarked(merged) == Tree(merged.heap, Without(merged.doc, "_extends"))
Manual(F) ==
  Unmarked(OverFile(OverFile(Read(EmptyDict, F, FileA), F, FileB), F, FileC))

\* every value of the document text is in tree: a scalar and a list as
\* they are, a dict with each of its items
Wins(tree, text) ==
  /\ \A k \in DOMAIN text.scalars \ {"_extends"} :
        k \in DOMAIN tree /\ tree[k] = text.scalars[k]
  /\ \A k \in DOMAIN text.nested :
        /\ k \in DOMAIN tree
        /\ tree[k][1] = text.nested[k].type
        /\ IF text.nested[k].type = "dict"
           THEN \A j \in DOMAIN text.nested[k].items :
                   /\ j \in DOMAIN tree[k][2]
                   /\ tree[k][2][j] = text.nested[k].items[j]
           ELSE tree[k][2] = text.nested[k].items

\* this step is a load or a reload of the file at path that gave a document
GivesFor(path) ==
  /\ last'.step = last.step + 1
  /\ last'.op \in {"load", "reload"}
  /\ abspath(last'.arg.config_path) = path
  /\ last'.raised = None

\* this step reads c.yaml, b.yaml and a.yaml: the cache has none of them,
\* or has c.yaml only and the call is not to use it
ReadsChain ==
  /\ FileA \notin DOMAIN config_cache
  /\ FileB \notin DOMAIN config_cache
  /\ \/ FileC \notin DOMAIN config_cache
     \/ ~last'.arg.cache
     \/ last'.op = "reload" /\ last'.arg.config_path = FileC

\* C26: a load of c.yaml, which extends b.yaml, which extends a.yaml, that
\* reads the three files gives merge(merge(A, B), C) without the _extends
\* keys, and every value of C is in what it gives
C26_Transitive ==
  [][GivesFor(FileC) /\ ReadsChain /\ config_files[FileB] = "mid"
       => /\ Tree(heap', last'.returned[1]) = Manual(Texts(config_files))
          /\ Wins(Tree(heap', last'.returned[1]), ConfigTexts[config_files[FileC]])]_vars

\* c.yaml was loaded over b.yaml over the base document of a.yaml, the
\* dicts under the ascend key of a.yaml and b.yaml merged item by item
C26_Witness ==
  /\ Gave
  /\ last.step = 1
  /\ abspath(last.arg.config_path) = FileC
  /\ config_files[FileB] = "mid"
  /\ config_files[FileA] = "base"
  /\ Tree(heap, last.returned[1]) = Manual(Texts(config_files))
  /\ Tree(heap, last.returned[1])["ascend"][2] =
        ("mode" :> Scalar(<<"mid">>)) @@ ("level" :> Scalar(<<"1">>))
  /\ Tree(heap, last.returned[1])["plugins"][2] = <<Scalar(<<"q">>)>>


\* C27: a load or a reload with validate=True gives a document only when
\* the validator has no error for that document, whatever was loaded and
\* reloaded before
C27_ValidatedOrRaised ==
  Gave /\ last.arg.validate => validator_errors(heap, last.returned[1]) = <<>>


\* what was raised and the document given, as a tree of values
Outcome(h, raised, returned) ==
  [raised |-> raised,
   returned |-> IF returned = None THEN None ELSE Some(Tree(h, returned[1]))]

\* what load gives for path when the cache has no entry for the file
Uncached(path, validate) ==
  CHOOSE out \in
    {Outcome(r.heap, r.raised, r.returned) :
       r \in {ConfigLoader_load(heap, Without(config_cache, abspath(path)),
                                Texts(config_files), path, validate, TRUE,
                                MaxDepth)}} : TRUE

\* C28: reload of a path, relative or absolute, gives what load gives once
\* the cache entry of the file is gone: never the cached document
C28_ReloadInvalidates ==
  [][last'.op = "reload" /\ last'.step = last.step + 1
       => Outcome(heap', last'.raised, last'.returned)
             = Uncached(last'.arg.config_path, last'.arg.validate)]_vars


\* the file that the document in the caller's hands was loaded from
HeldPath == abspath(last.arg.config_path)

\* this step changes the document that load gave for a file in the cache
MutatesCached ==
  /\ last'.op = "mutate"
  /\ last'.step = last.step + 1
  /\ last.op \in {"load", "reload", "mutate"}
  /\ HeldPath \in DOMAIN config_cache

\* C29: a change that the caller makes to a document that load gave, at
\* its top level or in a dict or list in it, leaves the cache entry of the
\* file, which a later load gives, as it was
C29_CacheNotShared ==
  [][MutatesCached
       => Tree(heap', config_cache'[HeldPath]) = Tree(heap, config_cache[HeldPath])]_vars


\* the values of the document under key: at the top level and one level
\* down, in the dict under the ascend key
Fields(h, cfg, key) ==
  {cfg[k] : k \in {key} \cap DOMAIN cfg}
    \cup {h[cfg[k][3]].items[key] :
            k \in {n \in {"ascend"} \cap DOMAIN cfg :
                     is_dict(h, cfg[n]) /\ key \in DOMAIN h[cfg[n][3]].items}}

\* C30: every document that load gives has a non-empty version string and
\* a non-empty framework value, at the top level or under the ascend key
C30_VersionAndFramework ==
  Gave => /\ \E v \in Fields(heap, last.returned[1], "version") :
                is_str(v) /\ v[2] /= <<>>
          /\ \E v \in Fields(heap, last.returned[1], "framework") :
                v[1] = "ref" \/ v[2] /= <<>>


-----------------------------------------------------------------------------
(***************************************************************************)
(* Properties of ConfigParser.merge                                        *)
(***************************************************************************)

\* a value with every dict and list in it in the place of the reference,
\* and a document as such a tree of values
RECURSIVE Deep(_, _)
Deep(h, v) ==
  IF v[1] = "ref"
  THEN <<h[v[3]].type,
         [k \in DOMAIN h[v[3]].items |-> Deep(h, h[v[3]].items[k])], 0>>
  ELSE v
DeepDoc(h, doc) == [k \in DOMAIN doc |-> Deep(h, doc[k])]

\* this step is a call of merge
Merges == last'.op = "merge" /\ last'.step = last.step + 1

\* C31: merge(doc, {}) is equal to doc, and merge(A, merge(A, B)) is equal
\* to merge(A, B): a merge of A with what the merge of A and B just gave
\* gives that again
C31_MergeIdempotent ==
  [][Merges
       => /\ last'.arg[2] = EmptyDict
               => DeepDoc(heap', last'.returned[1]) = DeepDoc(heap, last'.arg[1])
          /\ (/\ last.op = "merge"
              /\ last'.arg[1] = last.arg[1]
              /\ last'.arg[2] = last.returned[1])
               => DeepDoc(heap', last'.returned[1]) = DeepDoc(heap, last.returned[1])]_vars

\* A with a dict in a dict and a list, B with other items in those dicts,
\* and merge(A, merge(A, B)) returned after merge(A, B)
C31_Witness ==
  /\ last.op = "merge"
  /\ last.step = 2
  /\ last.arg[1] = last.held[1]
  /\ DeepDoc(heap, last.held[1])
        = ("k" :> DictOf(("x" :> DictOf(("z" :> Scalar(<<"b">>))
                                           @@ ("w" :> Scalar(<<"a">>))))
                            @@ ("y" :> ListOf(<<Scalar(<<"a">>)>>))))
  /\ DeepDoc(heap, last.held[2])
        = ("k" :> DictOf("x" :> DictOf("z" :> Scalar(<<"a">>))))
             @@ ("n" :> Scalar(<<"b">>))
  /\ DeepDoc(heap, last.arg[2])
        = ("k" :> DictOf(("x" :> DictOf(("z" :> Scalar(<<"a">>))
                                           @@ ("w" :> Scalar(<<"a">>))))
                            @@ ("y" :> ListOf(<<Scalar(<<"a">>)>>))))
             @@ ("n" :> Scalar(<<"b">>))
  /\ DeepDoc(heap, last.returned[1]) = DeepDoc(heap, last.arg[2])


\* the deep merge of two trees of values: the keys of both; two dicts under
\* one key merged, every other value of override as it is, every value of
\* base alone as it is
RECURSIVE DeepMerge(_, _)
DeepMerge(base, override) ==
  [k \in DOMAIN base \cup DOMAIN override |->
     IF k \notin DOMAIN override THEN base[k]
     ELSE IF k \in DOMAIN base /\ base[k][1] = "dict" /\ override[k][1] = "dict"
     THEN DictOf(DeepMerge(base[k][2], override[k][2]))
     ELSE override[k]]

\* C32: what merge(base, override) returns is the deep merge of the two
\* documents
C32_MergeIsDeepMerge ==
  [][Merges
       => DeepDoc(heap', last'.returned[1])
             = DeepMerge(DeepDoc(heap, last'.arg[1]), DeepDoc(heap, last'.arg[2]))]_vars

\* a merge of two documents with a dict in a dict under the same key, that
\* kept the item of the base alone, took the item of the override in the
\* inner dict and replaced no list by a longer one
C32_Witness ==
  /\ last.op = "merge"
  /\ last.step = 1
  /\ last.arg = last.held
  /\ DeepDoc(heap, last.held[1])
        = ("k" :> DictOf(("x" :> DictOf(("z" :> Scalar(<<"b">>))
                                           @@ ("w" :> Scalar(<<"a">>))))
                            @@ ("y" :> ListOf(<<Scalar(<<"a">>)>>))))
  /\ DeepDoc(heap, last.held[2])
        = ("k" :> DictOf("x" :> DictOf("z" :> Scalar(<<"a">>))))
             @@ ("n" :> Scalar(<<"b">>))
  /\ DeepDoc(heap, last.returned[1])
        = ("k" :> DictOf(("x" :> DictOf(("z" :> Scalar(<<"a">>))
                                           @@ ("w" :> Scalar(<<"a">>))))
                            @@ ("y" :> ListOf(<<Scalar(<<"a">>)>>))))
             @@ ("n" :> Scalar(<<"b">>))


-----------------------------------------------------------------------------
(***************************************************************************)
(* Properties of ConfigValidator                                           *)
(***************************************************************************)

\* a table of field rules: training.total_timesteps is required, an integer
\* and not below 0; plugins, when there, is a list
FieldRules ==
  <<FieldRule(<<"training", "total_timesteps">>, TRUE, "integer", TRUE),
    FieldRule(<<"plugins">>, FALSE, "list", FALSE)>>

\* validate has just returned or raised for a mapping
Validated(strict) ==
  /\ last.op = "validate"
  /\ last.arg.strict = strict
  /\ last.arg.cfg /= NotADict

\* every message of errors is in recorded
Recorded(errors, recorded) ==
  \A i \in DOMAIN errors : \E j \in DOMAIN recorded : recorded[j] = errors[i]

\* C33: validate(doc, strict=False) evaluates every rule of the table of
\* field rules: when doc violates one it returns False, and the errors
\* list has the entry of every rule violated
C33_EveryRuleEvaluated ==
  Validated(FALSE) /\ validate_fields(heap, last.arg.cfg, FieldRules) /= <<>>
    => /\ last.returned = Some(FALSE)
       /\ Recorded(validate_fields(heap, last.arg.cfg, FieldRules), validator.errors)


\* what validate with strict=False records for the document just validated
Lenient == validator_validate(heap, last.arg.cfg, FALSE).lists

\* C34: validate(doc, strict=True) raises a ValidationError when doc has a
\* violation that strict=False records in the errors list, and returns a
\* boolean only when there is none
C34_StrictRaises ==
  last.op = "validate" /\ last.arg.strict /\ Lenient.errors /= <<>>
    => last.raised /= None /\ last.returned = None


\* this step is a load with validate=True that reads the file
ValidatingLoad ==
  /\ last'.step = last.step + 1
  /\ last'.op = "load"
  /\ last'.arg.validate
  /\ \/ abspath(last'.arg.config_path) \notin DOMAIN config_cache
     \/ ~last'.arg.cache

\* the step did with the document resolved, the one that load gives without
\* validating, what the claim says: a plugin list with an entry that is no
\* string is an error and the load fails; a path under a directory that
\* does not exist is a warning only and the document is returned
ErrorsFailWarningsPass(unchecked) ==
  unchecked.raised = None
    => IF validator_errors(unchecked.heap, unchecked.returned[1]) /= <<>>
       THEN /\ last'.raised /= None
            /\ validator'.errors = <<(<<"Plugins must be a list of strings">>)>>
       ELSE /\ last'.raised = None
            /\ Tree(heap', last'.returned[1])
                  = Tree(unchecked.heap, unchecked.returned[1])
            /\ validator'.errors = <<>>
            /\ validator'.warnings
                  = validator_warnings(unchecked.heap, unchecked.returned[1])

\* C35: a plugin-list entry that is not a string is an error of the
\* validator, a path whose parent directory does not exist a warning only,
\* and load with validate=True returns a document that has warnings alone
C35_OnlyErrorsFail ==
  [][ValidatingLoad
       => \E unchecked \in {ConfigLoader_load(heap, config_cache, Texts(config_files),
                                             last'.arg.config_path, FALSE, FALSE,
                                             MaxDepth)} :
             ErrorsFailWarningsPass(unchecked)]_vars

\* b.yaml with a log directory under a directory that does not exist was
\* loaded with validate=True: one warning, no error, the document returned
C35_Witness ==
  /\ Gave
  /\ last.op = "load"
  /\ last.step = 1
  /\ last.arg.validate
  /\ last.arg.config_path = FileB
  /\ config_files[FileB] = "paths"
  /\ validator.errors = <<>>
  /\ Len(validator.warnings) = 1
  /\ "training" \in DOMAIN last.returned[1]


-----------------------------------------------------------------------------
(***************************************************************************)
(* Properties of the substitution of the environment                       *)
(***************************************************************************)

\* value with every placeholder whose name is set replaced by the value of
\* that name, and every other token as it is
RECURSIVE EachReplaced(_, _)
EachReplaced(environ, value) ==
  IF value = <<>> THEN <<>>
  ELSE (IF Head(value) \in DOMAIN NameOf /\ NameOf[Head(value)] \in DOMAIN environ
        THEN environ[NameOf[Head(value)]]
        ELSE <<Head(value)>>)
         \o EachReplaced(environ, Tail(value))

\* C36: in a string leaf every placeholder whose name is set is replaced by
\* the value of its own name, and every placeholder whose name is not set
\* is left as it is, also when the string has several placeholders
C36_EachPlaceholderItsOwn ==
  last.op = "resolve"
    => last.returned[1][2] = EachReplaced(last.environ, last.arg)


-----------------------------------------------------------------------------
(***************************************************************************)
(* Properties of version_utils                                             *)
(***************************************************************************)

\* the place of a version in the order of semantic versions
Rank(v) == CHOOSE i \in DOMAIN Releases : Releases[i] = v

\* the version of a clause: what follows the operator and the blank
Bound(constraint) == <<constraint[Len(constraint)]>>

\* what the operator of a clause says of two places in the order
Ordered(op, a, c) ==
  CASE op = ">=" -> a >= c
    [] op = "==" -> a = c
    [] op = ">" -> a > c
    [] op = "<=" -> a <= c
    [] op = "<" -> a < c

\* C37: a version satisfies a clause of the operators >=, ==, >, <=, <
\* exactly when the order of semantic versions says so, and
\* validate_plugin_version with an absent constraint is true for every
\* actual version
C37_SatisfiesFollowsOrder ==
  /\ last.op = "check_version_compatibility" /\ last.arg[2][1] \in Operators
       => last.returned[1]
            = Ordered(last.arg[2][1], Rank(last.arg[1]), Rank(Bound(last.arg[2])))
  /\ last.op = "validate_plugin_version" /\ last.arg[2] = None
       => last.returned[1] = TRUE

\* satisfies("1.2.3", ">=1.0.0") was asked and answered
C37_Witness ==
  /\ last.op = "check_version_compatibility"
  /\ last.arg = <<<<"1.2.3">>, <<">=", "1.0.0">>>>
  /\ last.returned = Some(TRUE)


-----------------------------------------------------------------------------
(***************************************************************************)
(* Properties of the chain of _extends                                     *)
(***************************************************************************)

\* where the chain of _extends of the file at path goes, in the files
\* named: "ends" in a file without _extends, "missing" when it reaches a
\* file that does not exist, "cycle" when it comes back to a file of seen
RECURSIVE Follows(_, _, _)
Follows(named, path, seen) ==
  IF path \in seen THEN "cycle"
  ELSE IF path \notin DOMAIN named \/ named[path] = "absent" THEN "missing"
  ELSE IF "_extends" \notin DOMAIN ConfigTexts[named[path]].scalars THEN "ends"
  ELSE Follows(named,
               path_join(dirname(path),
                         ConfigTexts[named[path]].scalars["_extends"][2]),
               seen \cup {path})

\* this step is a load that parses the file at its path: the call is not to
\* use the cache, or the cache has no entry for the path
LoadParses ==
  /\ last'.step = last.step + 1
  /\ last'.op = "load"
  /\ ~last'.arg.cache \/ abspath(last'.arg.config_path) \notin DOMAIN config_cache

\* the interpreter ran out of calls
OutOfCalls(call) ==
  /\ call.raised /= None
  /\ "maximum recursion depth exceeded" \in Range(call.raised[1].message)

\* C38: a load of a document whose chain of _extends has no cycle and ends
\* in existing files comes back by itself, with a document or an error of
\* its own; a load of a document whose chain has a cycle (the document
\* extends itself, or two documents extend each other) never returns a
\* document
C38_CycleNeverLoads ==
  [][LoadParses
       => /\ Follows(config_files, abspath(last'.arg.config_path), {}) = "ends"
               => ~OutOfCalls(last')
          /\ Follows(config_files, abspath(last'.arg.config_path), {}) = "cycle"
               => last'.returned = None]_vars

\* the half of C38 on the chains without a cycle
C38_AcyclicComesBack ==
  [][LoadParses
       /\ Follows(config_files, abspath(last'.arg.config_path), {}) = "ends"
       => ~OutOfCalls(last')]_vars

\* a load of a document with a cycle in its chain, by a loader whose cache
\* is empty, never returns a document
C38_CycleFreshCache ==
  [][LoadParses /\ config_cache = EmptyDict
       /\ Follows(config_files, abspath(last'.arg.config_path), {}) = "cycle"
       => OutOfCalls(last') /\ last'.returned = None]_vars


-----------------------------------------------------------------------------
(***************************************************************************)
(* Properties of load with cache=False                                     *)
(***************************************************************************)

\* what a loader with an empty cache gives for path from the files as they
\* are now
FromFiles(path, validate) ==
  CHOOSE out \in
    {Outcome(r.heap, r.raised, r.returned) :
       r \in {ConfigLoader_load(heap, EmptyDict, Texts(config_files), path,
                                validate, FALSE, MaxDepth)}} : TRUE

\* this step is a load that is not to use the cache
LoadsWithoutCache ==
  /\ last'.step = last.step + 1
  /\ last'.op = "load"
  /\ ~last'.arg.cache

\* C39: load(path, cache=False) leaves the cache with the entries it had,
\* each with the content it had, and gives what the files hold now, also
\* when the document extends a base document
C39_CacheFalseBypasses ==
  [][LoadsWithoutCache
       => /\ DOMAIN config_cache' = DOMAIN config_cache
          /\ \A path \in DOMAIN config_cache :
                Tree(heap', config_cache'[path]) = Tree(heap, config_cache[path])
          /\ Outcome(heap', last'.raised, last'.returned)
                = FromFiles(last'.arg.config_path, last'.arg.validate)]_vars

\* the half of C39 on the documents that extend nothing
C39_NoBaseBypasses ==
  [][LoadsWithoutCache
       /\ Follows(config_files, abspath(last'.arg.config_path), {})
            \in {"ends", "missing"}
       /\ Follows(config_files, abspath(last'.arg.config_path), {})
            = Follows(config_files, abspath(last'.arg.config_path), DOMAIN config_files
                        \ {abspath(last'.arg.config_path)})
       => /\ DOMAIN config_cache' = DOMAIN config_cache
          /\ \A path \in DOMAIN config_cache :
                Tree(heap', config_cache'[path]) = Tree(heap, config_cache[path])
          /\ Outcome(heap', last'.raised, last'.returned)
                = FromFiles(last'.arg.config_path, last'.arg.validate)]_vars


-----------------------------------------------------------------------------
(***************************************************************************)
(* Properties of Experience                                                *)
(***************************************************************************)

\* exp_from_dict was made by from_dict of exp.to_dict()
RoundTrip == last.op = "from_dict"

\* two experiences have the same state, action, reward, next_state and done
SameStep(e1, e2) ==
  /\ e1.state = e2.state
  /\ e1.action = e2.action
  /\ e1.reward = e2.reward
  /\ e1.next_state = e2.next_state
  /\ e1.done = e2.done

====
